---------------------------- MODULE Spec2Model ----------------------------
(***************************************************************************)
(* Verification model of the news-aggregator pipeline core:                *)
(*   - Deduplicator        (src/news_aggregator/deduplicator.py)           *)
(*   - ArticleRanker       (src/news_aggregator/processing/ranker.py)      *)
(*   - MultiProviderSummarizer and its hand-off to the composer            *)
(*     (providers/multi_provider_summarizer.py, orchestrator.py)           *)
(* Each component has its own specification (SpecDedup, SpecRank,          *)
(* SpecSumm) over a shared variable list; a specification leaves the       *)
(* variables of the other components at their idle values.                 *)
(***************************************************************************)
EXTENDS Integers, Sequences, FiniteSets, TLC

VARIABLES
    history,      \* Deduplicator.history.history: url -> ArticleHistoryEntry
    dOp,          \* "none", then "deduplicate", then "deduplicate2"
    dArgs,        \* the list deduplicate was given
    dAfterUrl,    \* `articles` after step 1 of deduplicate (URL pass)
    dAfterTitle,  \* `articles` after step 2 of deduplicate (title pass)
    dRes,         \* the list deduplicate returned
    dRes2,        \* what deduplicate returned when called again on dRes
    today,        \* the clock datetime.now() reads in ArticleHistory, in days
    dTicks,       \* how many times that clock has been moved
    sent,         \* the update_history calls made: urls of the list, clock
    history_days, \* config.quality.history_days
    config,       \* Config: providers (list of ProviderConfig), provider_strategy
    provider_order,      \* ProviderSelector.provider_order
    providers,           \* ProviderRegistry.providers (its keys)
    semaphore,           \* free slots of MultiProviderSummarizer.semaphore
    total_input_tokens,  \* MultiProviderSummarizer.total_input_tokens
    total_output_tokens, \* MultiProviderSummarizer.total_output_tokens
    sPc,          \* where summarize_by_audience stands
    articles_by_topic,   \* its argument: list of (topic, articles), dict order
    topicIdx,     \* position of its for loop in articles_by_topic
    tasks,        \* the chain walks of the batch being gathered
    results,      \* its `results` dict: list of (topic, summarized), dict order
    oPc,          \* where run_pipeline stands
    ranked_articles,     \* run_pipeline: output of stage 3
    summarized_articles, \* run_pipeline: the list given to the composer
    topics,       \* ArticleRanker.topics: topic -> TopicConfig
    now,          \* the clock datetime.now() reads, in hours
    rOp,          \* "none", then "rank_and_filter"
    rArgs,        \* the list rank_and_filter was given
    rScored,      \* rank_and_filter's local ranked_articles: every input, scored
    rRes,         \* the list of RankedArticle it returned
    scoreCalls,   \* the calls of calculate_score made directly: article, clock, score
    metrics,      \* one AIProvider's ProviderMetrics
    provCalls,    \* the summarize_async coroutines started on that provider
    provider_metrics, \* registry: provider_id -> that provider's ProviderMetrics
    walk_calls,   \* url -> the summarize_async calls the article's chain walk made
    selOp,        \* "none", "built" (ProviderSelector constructed), "chain"
    provider_chain, \* what get_provider_chain() returned
    pArticles,    \* run_pipeline: `articles`, the output of stage 1
    pUnique,      \* run_pipeline: `unique_articles`, the output of stage 2
    email_content, \* run_pipeline: what compose made, as the list it was given
    outbox,       \* the email_sender.send calls made: what was sent, what it returned
    stage_log,    \* the stages run_pipeline has entered, in order
    execution_result, \* the ExecutionResult run_pipeline returned
    history_file, \* the content of the history file
    run_start     \* history map and history file when run_pipeline was entered

dedupVars ==
    <<history, dOp, dArgs, dAfterUrl, dAfterTitle, dRes, dRes2, today, dTicks, sent,
      history_days>>

summVars ==
    <<config, provider_order, providers, semaphore, total_input_tokens,
      total_output_tokens, sPc, articles_by_topic, topicIdx, tasks, results,
      oPc, ranked_articles, summarized_articles>>

rankVars == <<topics, now, rOp, rArgs, rScored, rRes, scoreCalls>>

provVars == <<metrics, provCalls, provider_metrics, walk_calls>>

selVars == <<selOp, provider_chain>>

pipeVars ==
    <<pArticles, pUnique, email_content, outbox, stage_log, execution_result,
      history_file, run_start>>

vars == <<dedupVars, summVars, rankVars, provVars, selVars, pipeVars>>

(***************************************************************************)
(* Generic list helpers                                                    *)
(***************************************************************************)
Range(s) == {s[i] : i \in 1..Len(s)}

\* all lists over S of length 0..n
SeqsUpTo(S, n) == UNION {[1..k -> S] : k \in 0..n}

\* s[:n] for n >= 0
Take(s, n) == SubSeq(s, 1, IF n < Len(s) THEN n ELSE Len(s))

\* the concatenation of a list of lists
RECURSIVE Flatten(_)
Flatten(ss) == IF ss = <<>> THEN <<>> ELSE Head(ss) \o Flatten(Tail(ss))

Max(a, b) == IF a > b THEN a ELSE b

\* insert the pair x = <<key, item>> after every pair whose key is <= its own
RECURSIVE InsertByKey(_, _)
InsertByKey(sorted, x) ==
    IF sorted = <<>> THEN <<x>>
    ELSE IF x[1] < Head(sorted)[1]
         THEN <<x>> \o sorted
         ELSE <<Head(sorted)>> \o InsertByKey(Tail(sorted), x)

RECURSIVE SortPairs(_)
SortPairs(ps) ==
    IF ps = <<>> THEN <<>>
    ELSE InsertByKey(SortPairs(SubSeq(ps, 1, Len(ps) - 1)), ps[Len(ps)])

\* list.sort(key=...): stable and ascending; keys[i] is the key of s[i]
SortByKey(s, keys) ==
    LET sorted == SortPairs([i \in 1..Len(s) |-> <<keys[i], s[i]>>])
    IN [i \in 1..Len(s) |-> sorted[i][2]]

(***************************************************************************)
(* Deduplicator                                                            *)
(***************************************************************************)
\* bound on the length of an article list handed to the Deduplicator
MaxArticles == 3

Urls == {"u1", "u2", "u3"}

\* Titles are character sequences.  Lower-cased, "Abstory" and "acstory"
\* differ in one character (ratio 86), "acstory" and "dcstory" in one
\* (ratio 86), "Abstory" and "dcstory" in two (ratio 71).
Titles ==
    { <<"A","b","s","t","o","r","y">>,
      <<"a","c","s","t","o","r","y">>,
      <<"d","c","s","t","o","r","y">> }

PublishTimes == {1, 2}

\* Article (models.py): only the fields the Deduplicator reads
Articles == [url : Urls, title : Titles, published_at : PublishTimes]

ArticleLists == SeqsUpTo(Articles, MaxArticles)

\* persisted histories the Deduplicator can have loaded at construction
Histories ==
    { [u \in H |-> [url |-> u, sent_at |-> 0]] : H \in {{}, {"u1"}, {"u2", "u3"}} }

\* orchestrator: int(config.quality.dedup_title_threshold * 100), default 0.85
similarity_threshold == 85

\* str.lower() on one character
LowerChar(c) ==
    CASE c = "A" -> "a"
      [] c = "M" -> "m"
      [] OTHER   -> c

\* str.lower()
lower(s) == [i \in 1..Len(s) |-> LowerChar(s[i])]

\* length of the longest common subsequence of s[1..i] and t[1..j]
RECURSIVE LCS(_, _, _, _)
LCS(s, t, i, j) ==
    IF i = 0 \/ j = 0 THEN 0
    ELSE IF s[i] = t[j] THEN 1 + LCS(s, t, i - 1, j - 1)
    ELSE Max(LCS(s, t, i - 1, j), LCS(s, t, i, j - 1))

\* fuzz.ratio(s, t): int(round(100 * 2*M / T)), M matched characters,
\* T = len(s) + len(t); 0 for an empty string
fuzz_ratio(s, t) ==
    IF Len(s) = 0 \/ Len(t) = 0 THEN 0
    ELSE (400 * LCS(s, t, Len(s), Len(t)) + (Len(s) + Len(t)))
             \div (2 * (Len(s) + Len(t)))

\* fuzz.ratio(x.lower(), y.lower()) for every pair of titles, computed once
SimilarityTable ==
    [p \in Titles \X Titles |-> fuzz_ratio(lower(p[1]), lower(p[2]))]

\* similarity = fuzz.ratio(article.title.lower(), unique_article.title.lower())
similarity(a, b) == SimilarityTable[<<a.title, b.title>>]

\* Article.__eq__: equality is by url only
ArticleEq(a, b) == a.url = b.url

\* list.remove(x): drop the first element equal (Article.__eq__) to x
RECURSIVE list_remove(_, _)
list_remove(s, x) ==
    IF s = <<>> THEN <<>>
    ELSE IF ArticleEq(Head(s), x) THEN Tail(s)
    ELSE <<Head(s)>> \o list_remove(Tail(s), x)

\* the for loop of _deduplicate_by_url: seen_urls / unique_articles
RECURSIVE UrlLoop(_, _, _, _)
UrlLoop(articles, i, seen_urls, unique_articles) ==
    IF i > Len(articles) THEN unique_articles
    ELSE IF articles[i].url \notin seen_urls
         THEN UrlLoop(articles, i + 1, seen_urls \cup {articles[i].url},
                      Append(unique_articles, articles[i]))
         ELSE UrlLoop(articles, i + 1, seen_urls, unique_articles)

\* a URL pass that keeps, for each url, the last article carrying it
_deduplicate_by_url_keep_last(articles) ==
    LET first == UrlLoop(articles, 1, {}, <<>>)
        last(u) == articles[CHOOSE i \in 1..Len(articles) :
                       /\ articles[i].url = u
                       /\ \A j \in (i + 1)..Len(articles) : articles[j].url # u]
    IN [k \in 1..Len(first) |-> last(first[k].url)]

_deduplicate_by_url(articles) == UrlLoop(articles, 1, {}, <<>>)

\* index of the first unique_article whose similarity with `article` exceeds
\* the threshold (the inner for loop runs until its break), 0 if none
FirstSimilar(article, unique_articles) ==
    LET hits == {k \in 1..Len(unique_articles) :
                    similarity(article, unique_articles[k]) > similarity_threshold}
    IN IF hits = {} THEN 0 ELSE CHOOSE k \in hits : \A m \in hits : k <= m

\* the outer for loop of _deduplicate_by_title
RECURSIVE TitleLoop(_, _, _)
TitleLoop(articles, i, unique_articles) ==
    IF i > Len(articles) THEN unique_articles
    ELSE LET article == articles[i]
             k == FirstSimilar(article, unique_articles)
         IN IF k = 0
            THEN TitleLoop(articles, i + 1, Append(unique_articles, article))
            ELSE IF article.published_at < unique_articles[k].published_at
                 THEN TitleLoop(articles, i + 1,
                          Append(list_remove(unique_articles, unique_articles[k]),
                                 article))
                 ELSE TitleLoop(articles, i + 1, unique_articles)

\* a title pass that always keeps the article it saw first
RECURSIVE TitleLoopKeepFirst(_, _, _)
TitleLoopKeepFirst(articles, i, unique_articles) ==
    IF i > Len(articles) THEN unique_articles
    ELSE IF FirstSimilar(articles[i], unique_articles) = 0
         THEN TitleLoopKeepFirst(articles, i + 1, Append(unique_articles, articles[i]))
         ELSE TitleLoopKeepFirst(articles, i + 1, unique_articles)

_deduplicate_by_title_keep_first(articles) == TitleLoopKeepFirst(articles, 1, <<>>)

_deduplicate_by_title(articles) == TitleLoop(articles, 1, <<>>)

\* ArticleHistory.is_sent
is_sent(h, url) == url \in DOMAIN h

\* a history pass that filters nothing
_filter_sent_keep_all(h, articles) == articles

\* a history pass that forgets the `not`
_filter_sent_no_not(h, articles) ==
    SelectSeq(articles, LAMBDA a : is_sent(h, a.url))

_filter_sent(h, articles) ==
    SelectSeq(articles, LAMBDA a : ~is_sent(h, a.url))

deduplicate(h, articles) ==
    _filter_sent(h, _deduplicate_by_title(_deduplicate_by_url(articles)))

\* no provider constructed
ProvIdle ==
    /\ metrics = << >>
    /\ provCalls = <<>>
    /\ provider_metrics = << >>
    /\ walk_calls = << >>

\* no pipeline run
PipeIdle ==
    /\ pArticles = <<>>
    /\ pUnique = <<>>
    /\ email_content = <<>>
    /\ outbox = <<>>
    /\ stage_log = <<>>
    /\ execution_result = [kind |-> "none"]
    /\ history_file = << >>
    /\ run_start = [history |-> << >>, history_file |-> << >>]

\* no selector exercised on its own
SelIdle ==
    /\ selOp = "none"
    /\ provider_chain = <<>>

\* the ranker, not constructed
RankIdle ==
    /\ topics = << >>
    /\ now = 0
    /\ rOp = "none"
    /\ rArgs = <<>>
    /\ rScored = <<>>
    /\ rRes = <<>>
    /\ scoreCalls = <<>>

\* the other components, not constructed
SummIdle ==
    /\ config = [providers |-> <<>>, provider_strategy |-> "priority"]
    /\ provider_order = <<>>
    /\ providers = {}
    /\ semaphore = 0
    /\ total_input_tokens = 0
    /\ total_output_tokens = 0
    /\ sPc = "idle"
    /\ articles_by_topic = <<>>
    /\ topicIdx = 0
    /\ tasks = <<>>
    /\ results = <<>>
    /\ oPc = "idle"
    /\ ranked_articles = <<>>
    /\ summarized_articles = <<>>

\* QualityConfig.history_days: int = 30
DefaultHistoryDays == 30

\* Deduplicator.__init__ (the history loaded), nothing called yet
DedupStart ==
    /\ PipeIdle
    /\ history \in Histories
    /\ dOp = "none"
    /\ dArgs = <<>>
    /\ dAfterUrl = <<>>
    /\ dAfterTitle = <<>>
    /\ dRes = <<>>
    /\ dRes2 = <<>>
    /\ today = 0
    /\ dTicks = 0
    /\ sent = <<>>
    /\ SummIdle
    /\ RankIdle
    /\ ProvIdle
    /\ SelIdle

\* a configuration that leaves quality.history_days at its default
InitDedup ==
    /\ DedupStart
    /\ history_days = DefaultHistoryDays

\* Deduplicator.deduplicate(articles), articles being one of `lists`: the
\* three passes in sequence
DeduplicateOneOf(lists) ==
    /\ dOp = "none"
    /\ \E articles \in lists :
          LET after_url == _deduplicate_by_url(articles)
              after_title == _deduplicate_by_title(after_url)
          IN /\ dArgs' = articles
             /\ dAfterUrl' = after_url
             /\ dAfterTitle' = after_title
             /\ dRes' = _filter_sent(history, after_title)
    /\ dOp' = "deduplicate"
    /\ UNCHANGED <<pipeVars, history, dRes2, today, dTicks, sent, history_days, summVars,
                   rankVars, provVars, selVars>>

CallDeduplicate == DeduplicateOneOf(ArticleLists)

\* Deduplicator.stats once deduplicate has returned: what each of the three
\* passes of that call removed (the counts deduplicate logs after each pass)
stats ==
    [url_duplicates   |-> Len(dArgs) - Len(dAfterUrl),
     title_duplicates |-> Len(dAfterUrl) - Len(dAfterTitle),
     history_filtered |-> Len(dAfterTitle) - Len(dRes)]

\* deduplicate called again on the list the first call returned
CallDeduplicateAgain ==
    /\ dOp = "deduplicate"
    /\ dRes2' = deduplicate(history, dRes)
    /\ dOp' = "deduplicate2"
    /\ UNCHANGED <<pipeVars, history, dArgs, dAfterUrl, dAfterTitle, dRes, today, dTicks,
                   sent, history_days, summVars, rankVars, provVars, selVars>>

NextDedup ==
    \/ CallDeduplicate
    \/ CallDeduplicateAgain

SpecDedup == InitDedup /\ [][NextDedup]_vars

(***************************************************************************)
(* ArticleHistory over several runs: update_history after a send, days     *)
(* passing, deduplicate on the next fetch                                  *)
(***************************************************************************)
\* bound on the number of update_history calls
MaxUpdates == 2

\* bound on the number of times the clock is moved
MaxDayTicks == 2

\* update_history: cleanup_old(days=30)
CleanupDays == 30

\* the clock moves by a day or by the whole retention period
DaySteps == {1, CleanupDays}

\* two articles with different urls and titles that are not near-duplicates
\* of each other: what is fetched and sent in these runs
FetchedArticles ==
    { [url |-> "u1", title |-> <<"A","b","s","t","o","r","y">>, published_at |-> 1],
      [url |-> "u2", title |-> <<"d","c","s","t","o","r","y">>, published_at |-> 1] }

\* bound on the length of the lists fetched and sent in these runs
MaxFetched == 2

FetchedLists == SeqsUpTo(FetchedArticles, MaxFetched)

\* an add_articles that leaves the entry of a url already in the history as
\* it is
add_articles_keep_existing(h, articles, clock) ==
    LET added == {articles[i].url : i \in 1..Len(articles)}
    IN [u \in DOMAIN h \cup added |->
           IF u \in DOMAIN h THEN h[u] ELSE [url |-> u, sent_at |-> clock]]

\* ArticleHistory.add_articles: an entry stamped datetime.now() per article
add_articles(h, articles, clock) ==
    LET added == {articles[i].url : i \in 1..Len(articles)}
    IN [u \in DOMAIN h \cup added |->
           IF u \in added THEN [url |-> u, sent_at |-> clock] ELSE h[u]]

\* ArticleHistory.cleanup_old(days): keep the entries with sent_at >= cutoff
cleanup_old(h, clock, days) ==
    LET cutoff == clock - days
    IN [u \in {v \in DOMAIN h : h[v].sent_at >= cutoff} |-> h[u]]

\* Deduplicator.update_history: add_articles, cleanup_old(days=30), save
update_history(h, articles, clock) ==
    cleanup_old(add_articles(h, articles, clock), clock, CleanupDays)

CallUpdateHistory ==
    /\ dOp = "none"
    /\ Len(sent) < MaxUpdates
    /\ \E articles \in FetchedLists :
          /\ history' = update_history(history, articles, today)
          /\ sent' = Append(sent, [urls |-> {articles[i].url : i \in 1..Len(articles)},
                                   at |-> today])
    /\ UNCHANGED <<pipeVars, dOp, dArgs, dAfterUrl, dAfterTitle, dRes, dRes2, today, dTicks,
                   history_days, summVars, rankVars, provVars, selVars>>

\* time passes between two runs of the pipeline
DaysPass ==
    /\ dOp = "none"
    /\ dTicks < MaxDayTicks
    /\ \E step \in DaySteps : today' = today + step
    /\ dTicks' = dTicks + 1
    /\ UNCHANGED <<pipeVars, history, dOp, dArgs, dAfterUrl, dAfterTitle, dRes, dRes2, sent,
                   history_days, summVars, rankVars, provVars, selVars>>

\* deduplicate on the articles of a later fetch
CallDeduplicateFetched == DeduplicateOneOf(FetchedLists)

NextHist ==
    \/ CallUpdateHistory
    \/ DaysPass
    \/ CallDeduplicateFetched

SpecHist == InitDedup /\ [][NextHist]_vars

\* the values quality.history_days is configured with: a day, a week, the
\* default
HistoryDaysValues == {1, 7, DefaultHistoryDays}

\* the same runs under a configuration that sets quality.history_days
InitRetain ==
    /\ DedupStart
    /\ history_days \in HistoryDaysValues

SpecRetain == InitRetain /\ [][NextHist]_vars

(***************************************************************************)
(* Provider selector and registry                                          *)
(***************************************************************************)
\* ProviderConfig (config.py): the fields the selector and the registry read
ProviderConfig(id, type, enabled, priority, input_cost, output_cost) ==
    [provider_id |-> id, provider_type |-> type, enabled |-> enabled,
     priority |-> priority, input_cost_per_1M_tokens |-> input_cost,
     output_cost_per_1M_tokens |-> output_cost]

\* ProviderConfig.estimated_cost_per_request(1500, 200), times 1 000 000
estimated_cost_per_request(c) ==
    1500 * c.input_cost_per_1M_tokens + 200 * c.output_cost_per_1M_tokens

\* a _build_provider_order whose else branch leaves the enabled configs in
\* configuration order
_build_provider_order_unknown_unsorted(configs, strategy) ==
    LET enabled_configs == SelectSeq(configs, LAMBDA c : c.enabled)
        by_priority == [i \in 1..Len(enabled_configs) |-> enabled_configs[i].priority]
        by_cost == [i \in 1..Len(enabled_configs) |->
                       estimated_cost_per_request(enabled_configs[i])]
        sorted == CASE strategy = "priority"    -> SortByKey(enabled_configs, by_priority)
                    [] strategy = "cost"        -> SortByKey(enabled_configs, by_cost)
                    [] strategy = "performance" -> SortByKey(enabled_configs, by_priority)
                    [] OTHER                    -> enabled_configs
    IN [i \in 1..Len(sorted) |-> sorted[i].provider_id]

\* ProviderSelector._build_provider_order
_build_provider_order(configs, strategy) ==
    LET enabled_configs == SelectSeq(configs, LAMBDA c : c.enabled)
        by_priority == [i \in 1..Len(enabled_configs) |-> enabled_configs[i].priority]
        by_cost == [i \in 1..Len(enabled_configs) |->
                       estimated_cost_per_request(enabled_configs[i])]
        sorted == CASE strategy = "priority"    -> SortByKey(enabled_configs, by_priority)
                    [] strategy = "cost"        -> SortByKey(enabled_configs, by_cost)
                    [] strategy = "performance" -> SortByKey(enabled_configs, by_priority)
                    [] OTHER                    -> SortByKey(enabled_configs, by_priority)
    IN [i \in 1..Len(sorted) |-> sorted[i].provider_id]

\* ProviderSelector.get_provider_chain: a copy of provider_order
get_provider_chain(order) == order

\* a registry that instantiates the disabled configs as well
_initialize_providers_all(configs) ==
    {configs[i].provider_id : i \in 1..Len(configs)}

\* ProviderRegistry._initialize_providers: one instance per enabled config
_initialize_providers(configs) ==
    {configs[i].provider_id : i \in {k \in 1..Len(configs) : configs[k].enabled}}

\* configurations the summarizer is constructed with
Setups ==
    { [providers |-> <<ProviderConfig("p1", "anthropic", TRUE, 2, 3, 15),
                       ProviderConfig("p2", "openai", TRUE, 1, 10, 30)>>,
       provider_strategy |-> "priority"],
      [providers |-> <<ProviderConfig("p1", "anthropic", TRUE, 2, 3, 15),
                       ProviderConfig("p2", "openai", TRUE, 1, 10, 30)>>,
       provider_strategy |-> "cost"],
      [providers |-> <<ProviderConfig("p1", "anthropic", FALSE, 1, 3, 15),
                       ProviderConfig("p2", "openai", TRUE, 2, 10, 30)>>,
       provider_strategy |-> "priority"],
      [providers |-> <<ProviderConfig("p1", "anthropic", FALSE, 1, 3, 15)>>,
       provider_strategy |-> "fastest"] }

(***************************************************************************)
(* MultiProviderSummarizer                                                 *)
(***************************************************************************)
\* bound on the number of ranked articles of one run
MaxRanked == 2

\* bound on the number of bullets one provider call returns
MaxBullets == 6

\* asyncio.Semaphore(5)
SemaphoreSize == 5

\* `if len(bullets) < 3`
MinBullets == 3

\* `bullets[:5]`
MaxKeptBullets == 5

Topics == {"ai", "robotics"}

\* audience_map: topic -> TopicConfig.audience_level ("robotics" has no entry)
audience_map == [t \in {"ai"} |-> "cs_student"]

\* audience_map.get(topic, 'beginner')
AudienceLevel(topic) ==
    IF topic \in DOMAIN audience_map THEN audience_map[topic] ELSE "beginner"

\* lists of ranked articles: the i-th has url i and any topic
RankedLists ==
    UNION { {[i \in 1..k |-> [url |-> i, topic |-> t[i]]] : t \in [1..k -> Topics]}
            : k \in 0..MaxRanked }

\* the bullets a provider returns: n distinguishable strings
Bullets(provider_id, n) == [k \in 1..n |-> <<provider_id, k>>]

\* the bullet counts a provider returns: none, one short of the minimum, the
\* minimum, the most that is kept, and more than is kept
BulletCounts == {0, MinBullets - 1, MinBullets, MaxKeptBullets, MaxBullets}

\* what one `await provider.summarize_async(...)` inside the try block does:
\* the provider raises ProviderAPIError, something raises another
\* exception, or the provider returns (bullets, usage)
\* (the backend of the provider "steady" either fails or answers with the
\* minimum number of bullets)
Outcomes(provider_id) ==
    IF provider_id = "steady"
    THEN {[kind |-> "api_error", bullets |-> <<>>, input_tokens |-> 0, output_tokens |-> 0],
          [kind |-> "ok", bullets |-> Bullets(provider_id, MinBullets),
           input_tokens |-> 2, output_tokens |-> 1]}
    ELSE {[kind |-> "api_error", bullets |-> <<>>, input_tokens |-> 0, output_tokens |-> 0],
          [kind |-> "error", bullets |-> <<>>, input_tokens |-> 0, output_tokens |-> 0]}
         \cup {[kind |-> "ok", bullets |-> Bullets(provider_id, n),
                input_tokens |-> 2, output_tokens |-> 1] : n \in BulletCounts}

\* SummarizedArticle.from_article (`summary_bullets or []`)
from_article(article, summary_bullets, audience_level, summarization_failed) ==
    [url |-> article.url, topic |-> article.topic,
     summary_bullets |-> summary_bullets,
     audience_level |-> audience_level,
     summarization_failed |-> summarization_failed]

NoResult == [kind |-> "none"]

Returned(value) == [kind |-> "value", value |-> value]

Raised == [kind |-> "exception"]

\* a coroutine _summarize_article_with_fallback(article, audience_level, topic)
NewTask(article, audience_level) ==
    [article |-> article, audience_level |-> audience_level, pc |-> "start",
     idx |-> 0, log |-> <<>>, result |-> NoResult]

\* no `[:5]`
TruncateBullets_none(bullets) == bullets

\* `bullets[:5]`
TruncateBullets(bullets) == Take(bullets, MaxKeptBullets)

\* `len(bullets) < 1` in place of `len(bullets) < 3`
EnoughBullets_nonempty(bullets) == ~(Len(bullets) < 1)

\* the negation of `len(bullets) < 3`
EnoughBullets(bullets) == ~(Len(bullets) < MinBullets)

\* a loop whose "All providers failed" result leaves summarization_failed
\* at from_article's default, False
NextProvider_default_flag(t, chain, registry, k) ==
    IF k > Len(chain)
    THEN [t EXCEPT !.pc = "done",
                   !.result = [kind |-> "value",
                               value |-> [url |-> t.article.url,
                                          topic |-> t.article.topic,
                                          summary_bullets |-> <<>>,
                                          audience_level |-> t.audience_level,
                                          summarization_failed |-> FALSE]]]
    ELSE IF chain[k] \notin registry
         THEN [t EXCEPT !.pc = "done", !.result = [kind |-> "exception"]]
         ELSE [t EXCEPT !.pc = "calling", !.idx = k]

\* the `for provider_id in provider_chain` loop reaching its k-th iteration:
\* past the end, "All providers failed"; registry.get_provider raises
\* ValueError for an unknown id (outside the try block); otherwise the
\* coroutine suspends in summarize_async
NextProvider(t, chain, registry, k) ==
    IF k > Len(chain)
    THEN [t EXCEPT !.pc = "done",
                   !.result = Returned(from_article(t.article, <<>>,
                                                    t.audience_level, TRUE))]
    ELSE IF chain[k] \notin registry
         THEN [t EXCEPT !.pc = "done", !.result = Raised]
         ELSE [t EXCEPT !.pc = "calling", !.idx = k]

\* a loop body that keeps the accepted summary but does not return: it goes
\* on to the next provider while there is one
AfterCall_no_return(t, chain, registry, outcome) ==
    LET logged == [t EXCEPT !.log = Append(@, [provider_id |-> chain[t.idx],
                                               kind |-> outcome.kind,
                                               bullets |-> outcome.bullets])]
        accepted == [logged EXCEPT !.pc = "done",
                           !.result = Returned(from_article(
                               t.article, TruncateBullets(outcome.bullets),
                               t.audience_level, FALSE))]
    IN IF outcome.kind = "ok" /\ EnoughBullets(outcome.bullets)
       THEN IF t.idx < Len(chain)
            THEN [accepted EXCEPT !.pc = "calling", !.idx = t.idx + 1]
            ELSE accepted
       ELSE NextProvider(logged, chain, registry, t.idx + 1)

\* the body of the loop once summarize_async has returned or raised
AfterCall(t, chain, registry, outcome) ==
    LET logged == [t EXCEPT !.log = Append(@, [provider_id |-> chain[t.idx],
                                               kind |-> outcome.kind,
                                               bullets |-> outcome.bullets])]
    IN IF outcome.kind = "ok" /\ EnoughBullets(outcome.bullets)
       THEN [logged EXCEPT !.pc = "done",
                           !.result = Returned(from_article(
                               t.article, TruncateBullets(outcome.bullets),
                               t.audience_level, FALSE))]
       ELSE NextProvider(logged, chain, registry, t.idx + 1)

\* _summarize_batch, one gathered result: an exception becomes a failed
\* SummarizedArticle, a SummarizedArticle is taken as it is
SummarizedOf(t) ==
    IF t.result.kind = "exception"
    THEN from_article(t.article, <<>>, t.audience_level, TRUE)
    ELSE t.result.value

\* a _summarize_batch that leaves out the articles whose summarization failed
BatchResults_skip_failed(ts) ==
    SelectSeq([i \in 1..Len(ts) |-> SummarizedOf(ts[i])],
              LAMBDA a : ~a.summarization_failed)

\* _summarize_batch after gather(return_exceptions=True)
BatchResults(ts) == [i \in 1..Len(ts) |-> SummarizedOf(ts[i])]

\* run_pipeline stage 4: articles_by_topic.setdefault(topic, []).append(ra)
RECURSIVE GroupByTopic(_, _)
GroupByTopic(ranked, grouped) ==
    IF ranked = <<>> THEN grouped
    ELSE LET ra == Head(ranked)
             at == {i \in 1..Len(grouped) : grouped[i].topic = ra.topic}
         IN IF at = {}
            THEN GroupByTopic(Tail(ranked),
                     Append(grouped, [topic |-> ra.topic, articles |-> <<ra>>]))
            ELSE GroupByTopic(Tail(ranked),
                     [grouped EXCEPT ![CHOOSE i \in at : TRUE].articles = Append(@, ra)])

\* a dict with every topic as a key, some with an empty list
AllTopics(ranked) ==
    << [topic |-> "ai", articles |-> SelectSeq(ranked, LAMBDA ra : ra.topic = "ai")],
       [topic |-> "robotics",
        articles |-> SelectSeq(ranked, LAMBDA ra : ra.topic = "robotics")] >>

\* an except branch of stage 4 that delivers nothing
FallbackSummaries_none(ranked) == <<>>

\* run_pipeline's except branch of stage 4: every ranked article, failed
FallbackSummaries(ranked) ==
    [i \in 1..Len(ranked) |->
        from_article(ranked[i], <<>>, AudienceLevel(ranked[i].topic), TRUE)]

\* the other components, not constructed
DedupIdle ==
    /\ history = << >>
    /\ dOp = "none"
    /\ dArgs = <<>>
    /\ dAfterUrl = <<>>
    /\ dAfterTitle = <<>>
    /\ dRes = <<>>
    /\ dRes2 = <<>>
    /\ today = 0
    /\ dTicks = 0
    /\ sent = <<>>
    /\ history_days = DefaultHistoryDays

\* MultiProviderSummarizer.__init__
InitSumm ==
    /\ PipeIdle
    /\ DedupIdle
    /\ RankIdle
    /\ ProvIdle
    /\ SelIdle
    /\ config \in Setups
    /\ provider_order = _build_provider_order(config.providers, config.provider_strategy)
    /\ providers = _initialize_providers(config.providers)
    /\ semaphore = SemaphoreSize
    /\ total_input_tokens = 0
    /\ total_output_tokens = 0
    /\ sPc = "idle"
    /\ articles_by_topic = <<>>
    /\ topicIdx = 0
    /\ tasks = <<>>
    /\ results = <<>>
    /\ oPc = "idle"
    /\ ranked_articles = <<>>
    /\ summarized_articles = <<>>

\* run_pipeline reaches stage 4 with the ranked articles of stage 3, groups
\* them by topic and awaits summarize_by_audience
Stage4Start ==
    /\ oPc = "idle" /\ sPc = "idle"
    /\ \E ranked \in RankedLists :
          /\ ranked_articles' = ranked
          /\ articles_by_topic' = GroupByTopic(ranked, <<>>)
    /\ oPc' = "summarize"
    /\ sPc' = "loop"
    /\ topicIdx' = 1
    /\ results' = <<>>
    /\ UNCHANGED <<pipeVars, dedupVars, rankVars, provVars, selVars, config, provider_order, providers, semaphore,
                   total_input_tokens, total_output_tokens, tasks,
                   summarized_articles>>

\* summarize_by_audience called on its own, with a dict that names every topic
CallSummarizeByAudience ==
    /\ oPc = "idle" /\ sPc = "idle"
    /\ \E ranked \in RankedLists :
          /\ ranked_articles' = ranked
          /\ articles_by_topic' = AllTopics(ranked)
    /\ oPc' = "direct"
    /\ sPc' = "loop"
    /\ topicIdx' = 1
    /\ results' = <<>>
    /\ UNCHANGED <<pipeVars, dedupVars, rankVars, provVars, selVars, config, provider_order, providers, semaphore,
                   total_input_tokens, total_output_tokens, tasks,
                   summarized_articles>>

\* one iteration of `for topic, ranked_articles in articles_by_topic.items()`
\* up to its await, or the return after the loop
TopicLoop ==
    /\ sPc = "loop"
    /\ IF topicIdx > Len(articles_by_topic)
       THEN /\ sPc' = "returned"
            /\ UNCHANGED <<topicIdx, tasks, results>>
       ELSE LET entry == articles_by_topic[topicIdx]
            IN IF entry.articles = <<>>
               THEN /\ results' = Append(results,
                                     [topic |-> entry.topic, summarized |-> <<>>])
                    /\ topicIdx' = topicIdx + 1
                    /\ UNCHANGED <<sPc, tasks>>
               ELSE /\ tasks' = [i \in 1..Len(entry.articles) |->
                                    NewTask(entry.articles[i], AudienceLevel(entry.topic))]
                    /\ sPc' = "gather"
                    /\ UNCHANGED <<topicIdx, results>>
    /\ UNCHANGED <<pipeVars, dedupVars, rankVars, provVars, selVars, config, provider_order, providers, semaphore,
                   total_input_tokens, total_output_tokens, articles_by_topic,
                   oPc, ranked_articles, summarized_articles>>

\* a chain walk that does not wait for the semaphore
TaskAcquire_no_wait(i) ==
    /\ sPc = "gather"
    /\ tasks[i].pc = "start"
    /\ LET t == NextProvider(tasks[i], get_provider_chain(provider_order), providers, 1)
       IN /\ tasks' = [tasks EXCEPT ![i] = t]
          /\ semaphore' = IF t.pc = "done" THEN semaphore ELSE semaphore - 1
    /\ UNCHANGED <<pipeVars, dedupVars, rankVars, provVars, selVars, config, provider_order,
                   providers, total_input_tokens, total_output_tokens, sPc,
                   articles_by_topic, topicIdx, results, oPc, ranked_articles,
                   summarized_articles>>

\* a chain walk enters `async with self.semaphore`, takes the provider chain
\* and runs to its first await (or to its end when there is nothing to await)
TaskAcquire(i) ==
    /\ sPc = "gather"
    /\ tasks[i].pc = "start"
    /\ semaphore > 0
    /\ LET t == NextProvider(tasks[i], get_provider_chain(provider_order), providers, 1)
       IN /\ tasks' = [tasks EXCEPT ![i] = t]
          /\ semaphore' = IF t.pc = "done" THEN semaphore ELSE semaphore - 1
    /\ UNCHANGED <<pipeVars, dedupVars, rankVars, provVars, selVars, config, provider_order, providers,
                   total_input_tokens, total_output_tokens, sPc,
                   articles_by_topic, topicIdx, results, oPc, ranked_articles,
                   summarized_articles>>

\* the awaited provider call of a chain walk completes; the walk runs to its
\* next await or to its return, where it leaves the semaphore
ProviderCallEnds(i) ==
    /\ sPc = "gather"
    /\ tasks[i].pc = "calling"
    /\ \E outcome \in Outcomes(get_provider_chain(provider_order)[tasks[i].idx]) :
          LET t == AfterCall(tasks[i], get_provider_chain(provider_order),
                             providers, outcome)
          IN /\ tasks' = [tasks EXCEPT ![i] = t]
             /\ semaphore' = IF t.pc = "done" THEN semaphore + 1 ELSE semaphore
             /\ total_input_tokens' =
                    IF outcome.kind = "ok"
                    THEN total_input_tokens + outcome.input_tokens
                    ELSE total_input_tokens
             /\ total_output_tokens' =
                    IF outcome.kind = "ok"
                    THEN total_output_tokens + outcome.output_tokens
                    ELSE total_output_tokens
    /\ UNCHANGED <<pipeVars, dedupVars, rankVars, provVars, selVars, config, provider_order, providers, sPc,
                   articles_by_topic, topicIdx, results, oPc, ranked_articles,
                   summarized_articles>>

\* gather returns: _summarize_batch builds its list, summarize_by_audience
\* stores it under the topic and goes on with the next topic
GatherDone ==
    /\ sPc = "gather"
    /\ \A i \in 1..Len(tasks) : tasks[i].pc = "done"
    /\ results' = Append(results, [topic |-> articles_by_topic[topicIdx].topic,
                                   summarized |-> BatchResults(tasks)])
    /\ topicIdx' = topicIdx + 1
    /\ tasks' = <<>>
    /\ sPc' = "loop"
    /\ UNCHANGED <<pipeVars, dedupVars, rankVars, provVars, selVars, config, provider_order, providers, semaphore,
                   total_input_tokens, total_output_tokens, articles_by_topic,
                   oPc, ranked_articles, summarized_articles>>

\* run_pipeline: summarize_by_audience returned; flatten its dict for stage 5
Stage4Returns ==
    /\ oPc = "summarize"
    /\ sPc = "returned"
    /\ summarized_articles' =
           Flatten([i \in 1..Len(results) |-> results[i].summarized])
    /\ oPc' = "compose"
    /\ UNCHANGED <<pipeVars, dedupVars, rankVars, provVars, selVars, config, provider_order, providers, semaphore,
                   total_input_tokens, total_output_tokens, sPc,
                   articles_by_topic, topicIdx, tasks, results, ranked_articles>>

\* run_pipeline: summarize_by_audience raised; the except branch of stage 4
Stage4Raises ==
    /\ oPc = "summarize"
    /\ sPc \in {"loop", "gather"}
    /\ summarized_articles' = FallbackSummaries(ranked_articles)
    /\ oPc' = "compose"
    /\ sPc' = "raised"
    /\ UNCHANGED <<pipeVars, dedupVars, rankVars, provVars, selVars, config, provider_order, providers, semaphore,
                   total_input_tokens, total_output_tokens, articles_by_topic,
                   topicIdx, tasks, results, ranked_articles>>

NextSumm ==
    \/ Stage4Start
    \/ CallSummarizeByAudience
    \/ TopicLoop
    \/ \E i \in 1..Len(tasks) : TaskAcquire(i)
    \/ \E i \in 1..Len(tasks) : ProviderCallEnds(i)
    \/ GatherDone
    \/ Stage4Returns
    \/ Stage4Raises

SpecSumm == InitSumm /\ [][NextSumm]_vars

(***************************************************************************)
(* A run with more articles than the semaphore has slots.  The event loop  *)
(* runs every coroutine that is ready, a waiter on asyncio.Semaphore is    *)
(* woken when a slot is released, and a provider call ends (the clients    *)
(* are given a timeout): weak fairness on the steps of the run.            *)
(***************************************************************************)
\* bound on the number of ranked articles of such a run
MaxBatch == 6

\* one enabled provider
BatchSetup ==
    [providers |-> <<ProviderConfig("steady", "openai", TRUE, 1, 10, 30)>>,
     provider_strategy |-> "priority"]

\* MaxBatch articles: all of one topic, or the last one of another
BatchLists ==
    { [i \in 1..MaxBatch |->
          [url |-> i, topic |-> IF i <= n THEN "ai" ELSE "robotics"]]
        : n \in {MaxBatch - 1, MaxBatch} }

InitBatch ==
    /\ PipeIdle
    /\ DedupIdle
    /\ RankIdle
    /\ ProvIdle
    /\ SelIdle
    /\ config = BatchSetup
    /\ provider_order = _build_provider_order(config.providers, config.provider_strategy)
    /\ providers = _initialize_providers(config.providers)
    /\ semaphore = SemaphoreSize
    /\ total_input_tokens = 0
    /\ total_output_tokens = 0
    /\ sPc = "idle"
    /\ articles_by_topic = <<>>
    /\ topicIdx = 0
    /\ tasks = <<>>
    /\ results = <<>>
    /\ oPc = "idle"
    /\ ranked_articles = <<>>
    /\ summarized_articles = <<>>

\* run_pipeline reaches stage 4 with MaxBatch ranked articles
Stage4StartBatch ==
    /\ oPc = "idle" /\ sPc = "idle"
    /\ \E ranked \in BatchLists :
          /\ ranked_articles' = ranked
          /\ articles_by_topic' = GroupByTopic(ranked, <<>>)
    /\ oPc' = "summarize"
    /\ sPc' = "loop"
    /\ topicIdx' = 1
    /\ results' = <<>>
    /\ UNCHANGED <<pipeVars, dedupVars, rankVars, provVars, selVars, config, provider_order,
                   providers, semaphore, total_input_tokens, total_output_tokens,
                   tasks, summarized_articles>>

NextBatch ==
    \/ Stage4StartBatch
    \/ TopicLoop
    \/ \E i \in 1..Len(tasks) : TaskAcquire(i)
    \/ \E i \in 1..Len(tasks) : ProviderCallEnds(i)
    \/ GatherDone
    \/ Stage4Returns

FairBatch ==
    /\ WF_vars(TopicLoop)
    /\ WF_vars(GatherDone)
    /\ \A i \in 1..MaxBatch : WF_vars(i <= Len(tasks) /\ TaskAcquire(i))
    /\ \A i \in 1..MaxBatch : WF_vars(i <= Len(tasks) /\ ProviderCallEnds(i))

SpecBatch == InitBatch /\ [][NextBatch]_vars /\ FairBatch

(***************************************************************************)
(* ArticleRanker.  Sub-scores are kept as integers in units of 1/10000,    *)
(* quality scores and min_quality_score in units of 1/1000 (three          *)
(* decimals, as round(total_score, 3) leaves them).                        *)
(***************************************************************************)
\* bound on the length of the list given to rank_and_filter
MaxRankInput == 3

\* bound on TopicConfig.max_articles_per_day
MaxCap == 3

\* the instant of the ranking run, in hours
RankTime == 100

\* whether x occurs in y as a contiguous substring (Python `x in y`)
IsSubstring(x, y) ==
    \E k \in 0..(Len(y) - Len(x)) : SubSeq(y, k + 1, k + Len(x)) = x

\* sources: "Mit" contains the trusted "mi" once lower-cased, "m" is
\* contained in it, "xy" is unrelated
Sources == { <<"M", "i", "t">>, <<"m">>, <<"x", "y">> }

\* (content length, published_at, source) of the articles fed to the ranker
Profiles ==
    { [content_length |-> 1500, published_at |-> RankTime - 1, source |-> <<"M", "i", "t">>],
      [content_length |-> 2000, published_at |-> RankTime - 1, source |-> <<"x", "y">>],
      [content_length |-> 300, published_at |-> RankTime - 30, source |-> <<"m">>],
      [content_length |-> 100, published_at |-> RankTime - 80, source |-> <<"x", "y">>] }

RankTopics == {"ai", "robotics", "misc"}

\* lists of articles: the i-th has url i, any topic and any profile
RankInputs ==
    UNION { {[i \in 1..k |-> [url |-> i, topic |-> f[i][1],
                              content_length |-> f[i][2].content_length,
                              published_at |-> f[i][2].published_at,
                              source |-> f[i][2].source]]
                : f \in [1..k -> RankTopics \X Profiles]}
            : k \in 0..MaxRankInput }

\* TopicConfig: the fields the ranker reads
TopicConfig(min_quality_score, max_articles_per_day, trusted_sources) ==
    [min_quality_score |-> min_quality_score,
     max_articles_per_day |-> max_articles_per_day,
     trusted_sources |-> trusted_sources]

\* topic configurations: "misc" is never configured; max_articles_per_day
\* is an int that load_config and validate_config take as it comes, so a
\* negative one is among them
TopicSetups ==
    { [t \in {"ai", "robotics"} |->
          IF t = "ai" THEN TopicConfig(m, c, <<<<"m", "i">>>>)
                      ELSE TopicConfig(500, 1, <<>>)]
        : m \in {0, 700, 860}, c \in (0 - 1)..MaxCap }

\* _score_content_depth, times 10000
_score_content_depth(article) ==
    LET content_length == article.content_length
    IN IF content_length < 200
       THEN 25 * content_length
       ELSE IF content_length < 500
            THEN 5000 + 10 * (content_length - 200)
            ELSE LET extra_length == IF content_length - 500 < 1000
                                     THEN content_length - 500 ELSE 1000
                 IN 8000 + 2 * extra_length

\* a recency score that decays with every hour of age instead of in bands
_score_recency_linear(clock, article) ==
    LET age == clock - article.published_at
    IN IF age < 0 THEN 10000
       ELSE IF age >= 100 THEN 0
       ELSE 10000 - 100 * age

\* _score_recency, times 10000; clock is what datetime.now() returns
_score_recency(clock, article) ==
    LET age == clock - article.published_at
    IN IF age < 24 THEN 10000
       ELSE IF age < 48 THEN 5000
       ELSE IF age < 72 THEN 2000
       ELSE 0

\* _score_source_trust, times 10000
_score_source_trust(cfg, article) ==
    IF article.topic \notin DOMAIN cfg THEN 5000
    ELSE LET trusted_sources == cfg[article.topic].trusted_sources
             source_lower == lower(article.source)
         IN IF trusted_sources = <<>> THEN 5000
            ELSE IF \E k \in 1..Len(trusted_sources) :
                        \/ IsSubstring(lower(trusted_sources[k]), source_lower)
                        \/ IsSubstring(source_lower, lower(trusted_sources[k]))
                 THEN 10000
                 ELSE 5000

\* a CONTENT_WEIGHT of 0.5 in place of 0.4
calculate_score_heavy_content(cfg, clock, article) ==
    (5 * _score_content_depth(article) + 3 * _score_recency(clock, article)
        + 3 * _score_source_trust(cfg, article) + 50) \div 100

\* calculate_score: round(0.4 * content + 0.3 * recency + 0.3 * source, 3),
\* in units of 1/1000 (the weighted sum is never half-way between two)
calculate_score(cfg, clock, article) ==
    (4 * _score_content_depth(article) + 3 * _score_recency(clock, article)
        + 3 * _score_source_trust(cfg, article) + 50) \div 100

\* Python s[:n]
SliceTo(s, n) ==
    IF n >= 0 THEN Take(s, n)
    ELSE SubSeq(s, 1, IF Len(s) + n > 0 THEN Len(s) + n ELSE 0)

\* `topic_articles[:max_articles]`
LimitPerDay(topic_articles, max_articles) == SliceTo(topic_articles, max_articles)

\* the keys of articles_by_topic (a defaultdict) in insertion order
RECURSIVE TopicOrder(_, _)
TopicOrder(ranked_list, seen) ==
    IF ranked_list = <<>> THEN seen
    ELSE IF \E k \in 1..Len(seen) : seen[k] = Head(ranked_list).article.topic
         THEN TopicOrder(Tail(ranked_list), seen)
         ELSE TopicOrder(Tail(ranked_list), Append(seen, Head(ranked_list).article.topic))

\* an iteration that sorts ascending and then reverses the list, which
\* reverses the input order of equal scores
TopicBucket_reversed_ties(cfg, topic, ranked_list) ==
    IF topic \notin DOMAIN cfg THEN <<>>
    ELSE LET topic_articles == SelectSeq(ranked_list, LAMBDA ra : ra.article.topic = topic)
             filtered == SelectSeq(topic_articles,
                             LAMBDA ra : ra.quality_score >= cfg[topic].min_quality_score)
             ascending == SortByKey(filtered,
                              [i \in 1..Len(filtered) |-> filtered[i].quality_score])
             sorted == [i \in 1..Len(ascending) |-> ascending[Len(ascending) + 1 - i]]
         IN LimitPerDay(sorted, cfg[topic].max_articles_per_day)

\* one iteration of `for topic, topic_articles in articles_by_topic.items()`:
\* what it appends to filtered_articles
TopicBucket(cfg, topic, ranked_list) ==
    IF topic \notin DOMAIN cfg THEN <<>>
    ELSE LET topic_articles == SelectSeq(ranked_list, LAMBDA ra : ra.article.topic = topic)
             filtered == SelectSeq(topic_articles,
                             LAMBDA ra : ra.quality_score >= cfg[topic].min_quality_score)
             sorted == SortByKey(filtered,
                           [i \in 1..Len(filtered) |-> 0 - filtered[i].quality_score])
         IN LimitPerDay(sorted, cfg[topic].max_articles_per_day)

\* rank_and_filter, "Score all articles": the list ranked_articles
ScoreAll(cfg, clock, articles) ==
    [i \in 1..Len(articles) |->
        [article |-> articles[i],
         quality_score |-> calculate_score(cfg, clock, articles[i])]]

\* ArticleRanker.rank_and_filter
rank_and_filter(cfg, clock, articles) ==
    IF articles = <<>> THEN <<>>
    ELSE LET scored == ScoreAll(cfg, clock, articles)
             order == TopicOrder(scored, <<>>)
         IN Flatten([k \in 1..Len(order) |-> TopicBucket(cfg, order[k], scored)])

\* bound on the hours that pass between two calls of calculate_score
MaxTicks == 1

\* content lengths around the steps of _score_content_depth
ContentLengths == {0, 100, 199, 200, 499, 500, 1499, 1500, 3000}

\* publication instants around the steps of _score_recency, one of them
\* later than the clock
PublishInstants ==
    {RankTime + 5, RankTime - 1, RankTime - 23, RankTime - 24, RankTime - 47,
     RankTime - 48, RankTime - 71, RankTime - 72, RankTime - 200}

\* the articles calculate_score is called with directly
ScoreArticles ==
    { [url |-> 1, topic |-> t, content_length |-> c, published_at |-> p, source |-> s]
        : t \in RankTopics, c \in ContentLengths, p \in PublishInstants,
          s \in Sources \cup {<<>>} }

\* one call of calculate_score as the caller sees it
ScoreCall(cfg, clock, article) ==
    [article |-> article, clock |-> clock,
     score |-> calculate_score(cfg, clock, article)]

\* ArticleRanker.__init__
InitRank ==
    /\ PipeIdle
    /\ DedupIdle
    /\ SummIdle
    /\ ProvIdle
    /\ SelIdle
    /\ topics \in TopicSetups
    /\ now = RankTime
    /\ rOp = "none"
    /\ rArgs = <<>>
    /\ rScored = <<>>
    /\ rRes = <<>>
    /\ scoreCalls = <<>>

\* one run exercises either rank_and_filter or calculate_score on its own
CallRankAndFilter ==
    /\ rOp = "none"
    /\ scoreCalls = <<>>
    /\ \E articles \in RankInputs :
          /\ rArgs' = articles
          /\ rScored' = IF articles = <<>> THEN <<>>
                        ELSE ScoreAll(topics, now, articles)
          /\ rRes' = rank_and_filter(topics, now, articles)
    /\ rOp' = "rank_and_filter"
    /\ UNCHANGED <<pipeVars, dedupVars, summVars, provVars, selVars, topics, now, scoreCalls>>

\* calculate_score(article), called on its own
CallCalculateScore ==
    /\ rOp = "none"
    /\ scoreCalls = <<>>
    /\ \E article \in ScoreArticles :
          scoreCalls' = <<ScoreCall(topics, now, article)>>
    /\ UNCHANGED <<pipeVars, dedupVars, summVars, provVars, selVars, topics, now, rOp, rArgs, rScored, rRes>>

\* time passes between the first call and the second
Tick ==
    /\ Len(scoreCalls) = 1
    /\ now < RankTime + MaxTicks
    /\ now' = now + 1
    /\ UNCHANGED <<pipeVars, dedupVars, summVars, provVars, selVars, topics, rOp, rArgs, rScored, rRes, scoreCalls>>

\* calculate_score called again with the same article and configuration
CallCalculateScoreAgain ==
    /\ Len(scoreCalls) = 1
    /\ scoreCalls' = Append(scoreCalls, ScoreCall(topics, now, scoreCalls[1].article))
    /\ UNCHANGED <<pipeVars, dedupVars, summVars, provVars, selVars, topics, now, rOp, rArgs, rScored, rRes>>

NextRank ==
    \/ CallRankAndFilter
    \/ CallCalculateScore
    \/ Tick
    \/ CallCalculateScoreAgain

SpecRank == InitRank /\ [][NextRank]_vars

(***************************************************************************)
(* AIProvider.summarize_async (AnthropicProvider and OpenAIProvider have   *)
(* the same attempt loop) and ProviderMetrics.  The coroutines of one      *)
(* provider run on one event loop: a coroutine is suspended only in the    *)
(* backend request and in asyncio.sleep.                                   *)
(***************************************************************************)
\* bound on the number of summarize_async calls started on the provider
MaxCalls == 2

\* `for attempt in range(3)`
MaxAttempts == 3

\* ProviderMetrics(provider_id)
NewMetrics ==
    [total_requests |-> 0, successful_requests |-> 0, failed_requests |-> 0,
     total_input_tokens |-> 0, total_output_tokens |-> 0,
     consecutive_failures |-> 0]

\* a record_success that leaves total_requests as it is
record_success_no_count(m, input_tokens, output_tokens) ==
    [m EXCEPT !.successful_requests = @ + 1,
              !.total_input_tokens = @ + input_tokens,
              !.total_output_tokens = @ + output_tokens,
              !.consecutive_failures = 0]

\* ProviderMetrics.record_success (latency is not kept)
record_success(m, input_tokens, output_tokens) ==
    [m EXCEPT !.total_requests = @ + 1,
              !.successful_requests = @ + 1,
              !.total_input_tokens = @ + input_tokens,
              !.total_output_tokens = @ + output_tokens,
              !.consecutive_failures = 0]

\* ProviderMetrics.record_failure
record_failure(m) ==
    [m EXCEPT !.total_requests = @ + 1,
              !.failed_requests = @ + 1,
              !.consecutive_failures = @ + 1]

\* what one backend request of attempt number `attempt` comes back with:
\* RateLimitError, another APIError, an exception that is neither (among
\* them a response the extraction of text and usage fails on), or a
\* response with n parsed bullets and its token usage
BackendOutcomes(attempt) ==
    {[kind |-> k, bullets |-> <<>>, input_tokens |-> 0, output_tokens |-> 0]
        : k \in {"rate_limit", "api_error", "error"}}
    \cup {[kind |-> "ok", bullets |-> Bullets(attempt, n),
           input_tokens |-> 2 + n, output_tokens |-> n] : n \in {2, 4}}

\* a summarize_async coroutine suspended in its first backend request;
\* in_flight notes how many coroutines of the provider were suspended when
\* this one started
NewCall(in_flight) ==
    [pc |-> "backend", attempt |-> 0, trace |-> <<>>, result |-> NoResult,
     in_flight |-> in_flight]

AttemptEntry(attempt, outcome) ==
    [what |-> "attempt", attempt |-> attempt, kind |-> outcome.kind,
     bullets |-> outcome.bullets, seconds |-> 0]

SleepEntry(attempt, seconds) ==
    [what |-> "sleep", attempt |-> attempt, kind |-> "sleep",
     bullets |-> <<>>, seconds |-> seconds]

\* raise ProviderAPIError(...)
RaisedProviderAPIError == [kind |-> "ProviderAPIError"]

\* an except RateLimitError branch that sleeps after the last attempt as well
\* and then falls out of the loop
AfterAttempt_sleep_always(call, outcome) ==
    LET tried == [call EXCEPT !.trace = Append(@, AttemptEntry(call.attempt, outcome))]
    IN CASE outcome.kind = "ok" ->
              [tried EXCEPT !.pc = "returned",
                            !.result = Returned([bullets |-> outcome.bullets,
                                                 input_tokens |-> outcome.input_tokens,
                                                 output_tokens |-> outcome.output_tokens])]
         [] outcome.kind = "rate_limit" ->
              [tried EXCEPT !.pc = "sleeping",
                            !.trace = Append(@, SleepEntry(call.attempt, 2 ^ call.attempt))]
         [] OTHER ->
              [tried EXCEPT !.pc = "raised", !.result = RaisedProviderAPIError]

\* an except APIError branch that backs off and retries like the
\* rate-limit branch
AfterAttempt_retry_api_error(call, outcome) ==
    LET tried == [call EXCEPT !.trace = Append(@, AttemptEntry(call.attempt, outcome))]
    IN CASE outcome.kind = "ok" ->
              [tried EXCEPT !.pc = "returned",
                            !.result = Returned([bullets |-> outcome.bullets,
                                                 input_tokens |-> outcome.input_tokens,
                                                 output_tokens |-> outcome.output_tokens])]
         [] outcome.kind \in {"rate_limit", "api_error"} ->
              IF call.attempt < 2
              THEN [tried EXCEPT !.pc = "sleeping",
                                 !.trace = Append(@, SleepEntry(call.attempt,
                                                                2 ^ call.attempt))]
              ELSE [tried EXCEPT !.pc = "raised", !.result = RaisedProviderAPIError]
         [] OTHER ->
              [tried EXCEPT !.pc = "raised", !.result = RaisedProviderAPIError]

\* the body of the attempt loop from the point the backend request comes
\* back to the next suspension or to the end of the coroutine
AfterAttempt(call, outcome) ==
    LET tried == [call EXCEPT !.trace = Append(@, AttemptEntry(call.attempt, outcome))]
    IN CASE outcome.kind = "ok" ->
              [tried EXCEPT !.pc = "returned",
                            !.result = Returned([bullets |-> outcome.bullets,
                                                 input_tokens |-> outcome.input_tokens,
                                                 output_tokens |-> outcome.output_tokens])]
         [] outcome.kind = "rate_limit" ->
              IF call.attempt < 2
              THEN [tried EXCEPT !.pc = "sleeping",
                                 !.trace = Append(@, SleepEntry(call.attempt,
                                                                2 ^ call.attempt))]
              ELSE [tried EXCEPT !.pc = "raised", !.result = RaisedProviderAPIError]
         [] OTHER ->
              [tried EXCEPT !.pc = "raised", !.result = RaisedProviderAPIError]

\* metrics that record a failure at every failed attempt, the rate-limited
\* ones that are retried included
MetricsAfter_per_attempt(m, call, outcome) ==
    CASE outcome.kind = "ok" ->
           record_success(m, outcome.input_tokens, outcome.output_tokens)
      [] OTHER -> record_failure(m)

\* the metrics calls of the same piece of the loop body: record_success
\* before the return, record_failure before every raise
MetricsAfter(m, call, outcome) ==
    CASE outcome.kind = "ok" ->
           record_success(m, outcome.input_tokens, outcome.output_tokens)
      [] outcome.kind = "rate_limit" ->
           IF call.attempt < 2 THEN m ELSE record_failure(m)
      [] OTHER -> record_failure(m)

\* AIProvider.__init__
InitProv ==
    /\ PipeIdle
    /\ DedupIdle
    /\ SummIdle
    /\ RankIdle
    /\ SelIdle
    /\ metrics = NewMetrics
    /\ provCalls = <<>>
    /\ provider_metrics = << >>
    /\ walk_calls = << >>

\* summarize_async is called and runs to its first backend request
CallSummarizeAsync ==
    /\ Len(provCalls) < MaxCalls
    /\ provCalls' = Append(provCalls,
           NewCall(Cardinality({i \in 1..Len(provCalls) :
                                   provCalls[i].pc \in {"backend", "sleeping"}})))
    /\ UNCHANGED <<pipeVars, dedupVars, summVars, rankVars, selVars, metrics,
                   provider_metrics, walk_calls>>

\* the backend request of coroutine i comes back
BackendResponds(i) ==
    /\ provCalls[i].pc = "backend"
    /\ \E outcome \in BackendOutcomes(provCalls[i].attempt) :
          /\ provCalls' = [provCalls EXCEPT ![i] = AfterAttempt(@, outcome)]
          /\ metrics' = MetricsAfter(metrics, provCalls[i], outcome)
    /\ UNCHANGED <<pipeVars, dedupVars, summVars, rankVars, selVars, provider_metrics,
                   walk_calls>>

\* the loop after asyncio.sleep(wait_time): its next attempt, or past
\* range(3) the raise after the loop
AfterSleep(call) ==
    IF call.attempt + 1 < MaxAttempts
    THEN [call EXCEPT !.pc = "backend", !.attempt = @ + 1]
    ELSE [call EXCEPT !.pc = "raised", !.result = RaisedProviderAPIError]

\* asyncio.sleep(wait_time) of coroutine i is over: the loop goes to its
\* next attempt, or past range(3) to the raise after the loop
SleepEnds(i) ==
    /\ provCalls[i].pc = "sleeping"
    /\ provCalls' = [provCalls EXCEPT ![i] = AfterSleep(@)]
    /\ UNCHANGED <<pipeVars, dedupVars, summVars, rankVars, selVars, metrics,
                   provider_metrics, walk_calls>>

NextProv ==
    \/ CallSummarizeAsync
    \/ \E i \in 1..Len(provCalls) : BackendResponds(i)
    \/ \E i \in 1..Len(provCalls) : SleepEnds(i)

SpecProv == InitProv /\ [][NextProv]_vars

(***************************************************************************)
(* Chain walks with the providers' attempt loops inside.  SpecSumm takes a *)
(* provider call as one step; here the summarize_async a walk awaits runs  *)
(* attempt by attempt and keeps the metrics of its provider.  Prompts are  *)
(* created without error.  The event loop runs every ready coroutine and   *)
(* every backend request and sleep ends: weak fairness on the steps.       *)
(***************************************************************************)
\* bound on the provider calls one run can make: articles times chain length
MaxWalkCalls == 2

\* the calls the chain walk of the article with this url has made so far
CallsOf(url) == IF url \in DOMAIN walk_calls THEN walk_calls[url] ELSE <<>>

\* the summarize_async the walk is suspended in: the one it has in progress,
\* or one just started and suspended in its first backend request
CurrentCall(url) ==
    LET cs == CallsOf(url)
    IN IF cs # <<>> /\ cs[Len(cs)].pc \in {"backend", "sleeping"}
       THEN cs[Len(cs)]
       ELSE NewCall(0)

\* walk_calls with `call` as the state of that summarize_async
WithCall(url, call) ==
    LET cs == CallsOf(url)
        updated == IF cs # <<>> /\ cs[Len(cs)].pc \in {"backend", "sleeping"}
                   THEN [cs EXCEPT ![Len(cs)] = call]
                   ELSE Append(cs, call)
    IN [u \in DOMAIN walk_calls \cup {url} |-> IF u = url THEN updated ELSE walk_calls[u]]

\* what `await provider.summarize_async(...)` hands the walk once the call
\* has ended: (bullets, usage) or ProviderAPIError
CallOutcome(call) ==
    IF call.pc = "returned"
    THEN [kind |-> "ok", bullets |-> call.result.value.bullets,
          input_tokens |-> call.result.value.input_tokens,
          output_tokens |-> call.result.value.output_tokens]
    ELSE [kind |-> "api_error", bullets |-> <<>>, input_tokens |-> 0,
          output_tokens |-> 0]

\* token tracking placed after the bullet count validation
AddUsage_if_accepted(total, call, field) ==
    IF call.pc = "returned" /\ EnoughBullets(call.result.value.bullets)
    THEN total + call.result.value[field]
    ELSE total

\* `self.total_input_tokens += usage.get("input_tokens", 0)` and its twin,
\* run when summarize_async has returned
AddUsage(total, call, field) ==
    IF call.pc = "returned" THEN total + call.result.value[field] ELSE total

\* a walk that asks the same provider again after a failure
WalkAfter_same_provider(t, chain, registry, call) ==
    IF call.pc \in {"backend", "sleeping"} THEN t
    ELSE IF call.pc = "returned" /\ EnoughBullets(call.result.value.bullets)
         THEN AfterCall(t, chain, registry, CallOutcome(call))
         ELSE [t EXCEPT !.log = Append(@, [provider_id |-> chain[t.idx],
                                           kind |-> CallOutcome(call).kind,
                                           bullets |-> CallOutcome(call).bullets])]

\* the walk once its summarize_async has moved: still suspended in it, or
\* through the rest of the loop body
WalkAfter(t, chain, registry, call) ==
    IF call.pc \in {"backend", "sleeping"} THEN t
    ELSE AfterCall(t, chain, registry, CallOutcome(call))

\* the backend outcomes of these runs
WalkOutcomes(attempt) == {o \in BackendOutcomes(attempt) : o.kind # "error"}

\* MultiProviderSummarizer.__init__, each provider with fresh metrics
InitWalk ==
    /\ PipeIdle
    /\ DedupIdle
    /\ RankIdle
    /\ SelIdle
    /\ metrics = << >>
    /\ provCalls = <<>>
    /\ walk_calls = << >>
    /\ config \in Setups
    /\ provider_order = _build_provider_order(config.providers, config.provider_strategy)
    /\ providers = _initialize_providers(config.providers)
    /\ provider_metrics = [id \in providers |-> NewMetrics]
    /\ semaphore = SemaphoreSize
    /\ total_input_tokens = 0
    /\ total_output_tokens = 0
    /\ sPc = "idle"
    /\ articles_by_topic = <<>>
    /\ topicIdx = 0
    /\ tasks = <<>>
    /\ results = <<>>
    /\ oPc = "idle"
    /\ ranked_articles = <<>>
    /\ summarized_articles = <<>>

\* run_pipeline reaches stage 4 with the ranked articles of stage 3
Stage4StartWalk ==
    /\ oPc = "idle" /\ sPc = "idle"
    /\ \E ranked \in RankedLists :
          /\ Len(ranked) * Len(provider_order) <= MaxWalkCalls
          /\ ranked_articles' = ranked
          /\ articles_by_topic' = GroupByTopic(ranked, <<>>)
    /\ oPc' = "summarize"
    /\ sPc' = "loop"
    /\ topicIdx' = 1
    /\ results' = <<>>
    /\ UNCHANGED <<pipeVars, dedupVars, rankVars, provVars, selVars, config, provider_order,
                   providers, semaphore, total_input_tokens, total_output_tokens,
                   tasks, summarized_articles>>

\* the backend request of the summarize_async that walk i awaits comes back:
\* the provider's loop body, its metrics, and when the call has ended the
\* walk's token tracking and the rest of its loop up to the next await or
\* to its return
WalkBackendResponds(i) ==
    /\ sPc = "gather"
    /\ tasks[i].pc = "calling"
    /\ LET url == tasks[i].article.url
           chain == get_provider_chain(provider_order)
           call == CurrentCall(url)
       IN /\ call.pc = "backend"
          /\ \E outcome \in WalkOutcomes(call.attempt) :
                LET after == AfterAttempt(call, outcome)
                    t == WalkAfter(tasks[i], chain, providers, after)
                IN /\ walk_calls' = WithCall(url, after)
                   /\ provider_metrics' =
                          [provider_metrics EXCEPT ![chain[tasks[i].idx]] =
                              MetricsAfter(@, call, outcome)]
                   /\ tasks' = [tasks EXCEPT ![i] = t]
                   /\ semaphore' = IF t.pc = "done" THEN semaphore + 1 ELSE semaphore
                   /\ total_input_tokens' =
                          AddUsage(total_input_tokens, after, "input_tokens")
                   /\ total_output_tokens' =
                          AddUsage(total_output_tokens, after, "output_tokens")
    /\ UNCHANGED <<pipeVars, dedupVars, rankVars, selVars, metrics, provCalls, config,
                   provider_order, providers, sPc, articles_by_topic, topicIdx,
                   results, oPc, ranked_articles, summarized_articles>>

\* the backoff sleep of the summarize_async that walk i awaits is over
WalkSleepEnds(i) ==
    /\ sPc = "gather"
    /\ tasks[i].pc = "calling"
    /\ LET url == tasks[i].article.url
           chain == get_provider_chain(provider_order)
           call == CurrentCall(url)
       IN /\ call.pc = "sleeping"
          /\ LET after == AfterSleep(call)
                 t == WalkAfter(tasks[i], chain, providers, after)
             IN /\ walk_calls' = WithCall(url, after)
                /\ tasks' = [tasks EXCEPT ![i] = t]
                /\ semaphore' = IF t.pc = "done" THEN semaphore + 1 ELSE semaphore
    /\ UNCHANGED <<pipeVars, dedupVars, rankVars, selVars, metrics, provCalls,
                   provider_metrics, config, provider_order, providers,
                   total_input_tokens, total_output_tokens, sPc,
                   articles_by_topic, topicIdx, results, oPc, ranked_articles,
                   summarized_articles>>

NextWalk ==
    \/ Stage4StartWalk
    \/ TopicLoop
    \/ \E i \in 1..Len(tasks) : TaskAcquire(i)
    \/ \E i \in 1..Len(tasks) : WalkBackendResponds(i)
    \/ \E i \in 1..Len(tasks) : WalkSleepEnds(i)
    \/ GatherDone
    \/ Stage4Returns

FairWalk ==
    /\ WF_vars(TopicLoop)
    /\ WF_vars(GatherDone)
    /\ WF_vars(Stage4Returns)
    /\ \A i \in 1..MaxRanked : WF_vars(i <= Len(tasks) /\ TaskAcquire(i))
    /\ \A i \in 1..MaxRanked : WF_vars(i <= Len(tasks) /\ WalkBackendResponds(i))
    /\ \A i \in 1..MaxRanked : WF_vars(i <= Len(tasks) /\ WalkSleepEnds(i))

SpecWalk == InitWalk /\ [][NextWalk]_vars /\ FairWalk

(***************************************************************************)
(* ProviderSelector on its own                                             *)
(***************************************************************************)
\* bound on the number of ProviderConfigs given to the selector
MaxProviders == 3

\* provider_id of the i-th config
ProviderIds == <<"p1", "p2", "p3", "p4", "p5">>

Strategies == {"priority", "cost", "performance", "fastest"}

\* lists of provider configs: the i-th has the i-th id, is enabled or not,
\* has priority 1 or 2 and one of two price pairs
ConfigLists ==
    UNION { {[i \in 1..k |-> ProviderConfig(ProviderIds[i], "anthropic", f[i][1],
                                            f[i][2], f[i][3][1], f[i][3][2])]
                : f \in [1..k -> BOOLEAN \X {1, 2} \X {<<3, 15>>, <<10, 30>>}]}
            : k \in 0..MaxProviders }

InitSel ==
    /\ PipeIdle
    /\ DedupIdle
    /\ SummIdle
    /\ RankIdle
    /\ ProvIdle
    /\ selOp = "none"
    /\ provider_chain = <<>>

\* ProviderSelector(provider_configs, strategy)
ConstructSelector ==
    /\ selOp = "none"
    /\ \E configs \in ConfigLists, strategy \in Strategies :
          /\ config' = [providers |-> configs, provider_strategy |-> strategy]
          /\ provider_order' = _build_provider_order(configs, strategy)
    /\ selOp' = "built"
    /\ UNCHANGED <<pipeVars, dedupVars, rankVars, provVars, providers, semaphore,
                   total_input_tokens, total_output_tokens, sPc,
                   articles_by_topic, topicIdx, tasks, results, oPc,
                   ranked_articles, summarized_articles, provider_chain>>

\* selector.get_provider_chain()
CallGetProviderChain ==
    /\ selOp = "built"
    /\ provider_chain' = get_provider_chain(provider_order)
    /\ selOp' = "chain"
    /\ UNCHANGED <<pipeVars, dedupVars, summVars, rankVars, provVars>>

NextSel ==
    \/ ConstructSelector
    \/ CallGetProviderChain

SpecSel == InitSel /\ [][NextSel]_vars

(***************************************************************************)
(* MultiProviderSummarizer.__init__ over provider configs of any shape:    *)
(* provider_ids that repeat, disabled configs, a provider_type the         *)
(* registry does not know                                                  *)
(***************************************************************************)
ProviderTypes == {"anthropic", "mistral"}

\* lists of provider configs with ids p1 (priority 2) or p2 (priority 1),
\* enabled or not, of a known or an unknown type
BuildConfigLists ==
    UNION { {[i \in 1..k |-> ProviderConfig(f[i][1], f[i][2], f[i][3],
                                            IF f[i][1] = "p1" THEN 2 ELSE 1, 3, 15)]
                : f \in [1..k -> {"p1", "p2"} \X ProviderTypes \X BOOLEAN]}
            : k \in 0..MaxProviders }

\* ProviderRegistry._initialize_providers raises ValueError: an enabled
\* config has a provider_type that is neither "anthropic" nor "openai"
UnknownProviderType(configs) ==
    \E i \in 1..Len(configs) :
        /\ configs[i].enabled
        /\ configs[i].provider_type \notin {"anthropic", "openai"}

\* MultiProviderSummarizer(config): the registry, then the selector, the
\* semaphore and the token totals; a ValueError of the registry leaves the
\* constructor
ConstructSummarizer ==
    /\ selOp = "none"
    /\ \E configs \in BuildConfigLists, strategy \in {"priority", "cost"} :
          /\ config' = [providers |-> configs, provider_strategy |-> strategy]
          /\ IF UnknownProviderType(configs)
             THEN /\ selOp' = "failed"
                  /\ UNCHANGED <<providers, provider_order, semaphore>>
             ELSE /\ providers' = _initialize_providers(configs)
                  /\ provider_order' = _build_provider_order(configs, strategy)
                  /\ semaphore' = SemaphoreSize
                  /\ selOp' = "built"
    /\ UNCHANGED <<pipeVars, dedupVars, rankVars, provVars, total_input_tokens,
                   total_output_tokens, sPc, articles_by_topic, topicIdx, tasks,
                   results, oPc, ranked_articles, summarized_articles,
                   provider_chain>>

NextBuild ==
    \/ ConstructSummarizer
    \/ CallGetProviderChain

SpecBuild == InitSel /\ [][NextBuild]_vars

(***************************************************************************)
(* PipelineOrchestrator.run_pipeline: one run, stage by stage.  Every      *)
(* stage either does its work or raises; email_sender.send returns True,   *)
(* returns False or raises.  The history file holds what ArticleHistory    *)
(* loaded at construction; update_history is given entries this program    *)
(* wrote, on which it does not raise.  One provider is configured.         *)
(***************************************************************************)
\* bound on the number of articles fetch_all returns
MaxPipeFetched == 2

\* the articles the sources offer: two of topic "ai" with unrelated titles,
\* and an old, short one of topic "robotics" whose title is a near-duplicate
\* of both
PipeArticles ==
    { [url |-> "u1", title |-> <<"A","b","s","t","o","r","y">>, topic |-> "ai",
       content_length |-> 1500, published_at |-> RankTime - 1,
       source |-> <<"M", "i", "t">>],
      [url |-> "u2", title |-> <<"d","c","s","t","o","r","y">>, topic |-> "ai",
       content_length |-> 2000, published_at |-> RankTime - 1,
       source |-> <<"x", "y">>],
      [url |-> "u3", title |-> <<"a","c","s","t","o","r","y">>, topic |-> "robotics",
       content_length |-> 300, published_at |-> RankTime - 30,
       source |-> <<"m">>] }

PipeFetches == SeqsUpTo(PipeArticles, MaxPipeFetched)

\* config.topics of these runs
PipeTopics ==
    [t \in {"ai", "robotics"} |->
        IF t = "ai" THEN TopicConfig(0, MaxCap, <<<<"m", "i">>>>)
                    ELSE TopicConfig(0, 1, <<>>)]

\* what email_sender.send does: returns True, returns False, raises
SendOutcomes == {"True", "False", "raised"}

\* the order of the stages in run_pipeline
StageOrder == <<"fetch", "deduplicate", "rank", "summarize", "compose", "send">>

\* the variables of the summarizer that only stage 4 touches
stage4Vars ==
    <<config, provider_order, providers, semaphore, total_input_tokens,
      total_output_tokens, sPc, articles_by_topic, topicIdx, tasks, results>>

\* the variables of the Deduplicator's own calls
dedupCallVars ==
    <<dOp, dArgs, dAfterUrl, dAfterTitle, dRes, dRes2, today, dTicks, history_days>>

\* PipelineOrchestrator.__init__ and the entry of run_pipeline
InitPipe ==
    /\ ProvIdle
    /\ SelIdle
    /\ history \in Histories
    /\ history_file = history
    /\ run_start = [history |-> history, history_file |-> history_file]
    /\ dOp = "none"
    /\ dArgs = <<>>
    /\ dAfterUrl = <<>>
    /\ dAfterTitle = <<>>
    /\ dRes = <<>>
    /\ dRes2 = <<>>
    /\ today = 0
    /\ dTicks = 0
    /\ sent = <<>>
    /\ history_days = DefaultHistoryDays
    /\ topics = PipeTopics
    /\ now = RankTime
    /\ rOp = "none"
    /\ rArgs = <<>>
    /\ rScored = <<>>
    /\ rRes = <<>>
    /\ scoreCalls = <<>>
    /\ config = BatchSetup
    /\ provider_order = _build_provider_order(config.providers, config.provider_strategy)
    /\ providers = _initialize_providers(config.providers)
    /\ semaphore = SemaphoreSize
    /\ total_input_tokens = 0
    /\ total_output_tokens = 0
    /\ sPc = "idle"
    /\ articles_by_topic = <<>>
    /\ topicIdx = 0
    /\ tasks = <<>>
    /\ results = <<>>
    /\ oPc = "fetch"
    /\ ranked_articles = <<>>
    /\ summarized_articles = <<>>
    /\ pArticles = <<>>
    /\ pUnique = <<>>
    /\ email_content = <<>>
    /\ outbox = <<>>
    /\ stage_log = <<>>
    /\ execution_result = [kind |-> "none"]

\* ExecutionResult(success=False, articles_fetched=..., articles_sent=0)
FailedResult(fetched) ==
    [kind |-> "value", success |-> FALSE, articles_fetched |-> fetched,
     articles_sent |-> 0]

\* ExecutionResult(success=True, ...)
SuccessResult(fetched, sent_count) ==
    [kind |-> "value", success |-> TRUE, articles_fetched |-> fetched,
     articles_sent |-> sent_count]

\* a run_pipeline that goes on with the next stage whatever the stage did
NextStage_go_on(stage, raised) ==
    CASE stage = "fetch" -> "deduplicate"
      [] stage = "deduplicate" -> "rank"
      [] stage = "rank" -> "stage4"
      [] stage = "compose" -> "send"
      [] OTHER -> "returned"

\* where run_pipeline goes after a stage: the except branches of stages 1,
\* 2, 3 and 5 return, stage 6 is the last
NextStage(stage, raised) ==
    IF raised THEN "returned"
    ELSE CASE stage = "fetch" -> "deduplicate"
           [] stage = "deduplicate" -> "rank"
           [] stage = "rank" -> "stage4"
           [] stage = "compose" -> "send"
           [] OTHER -> "returned"

\* a stage 6 that updates the history whatever send answered
HistoryAfterSend_always(h, returned, summarized, clock) ==
    IF summarized # <<>> THEN update_history(h, summarized, clock) ELSE h

\* stage 6: `if success: ... if summarized_articles: update_history(...)`
HistoryAfterSend(h, returned, summarized, clock) ==
    IF returned = "True" /\ summarized # <<>>
    THEN update_history(h, summarized, clock)
    ELSE h

\* the except branch of stages 1, 2, 3 and 5: the error notification goes
\* out (or fails to, which is logged) and run_pipeline returns
StageFails(stage, fetched) ==
    /\ stage_log' = Append(stage_log, [stage |-> stage, raised |-> TRUE])
    /\ \E returned \in SendOutcomes :
          outbox' = Append(outbox, [what |-> "error", articles |-> <<>>,
                                    returned |-> returned])
    /\ execution_result' =
          IF NextStage(stage, TRUE) = "returned" THEN FailedResult(fetched)
          ELSE execution_result
    /\ oPc' = NextStage(stage, TRUE)

\* stage 1: fetch_all
Stage1Fetch ==
    /\ oPc = "fetch"
    /\ \/ /\ \E fetched \in PipeFetches : pArticles' = fetched
          /\ stage_log' = Append(stage_log, [stage |-> "fetch", raised |-> FALSE])
          /\ oPc' = NextStage("fetch", FALSE)
          /\ UNCHANGED <<outbox, execution_result>>
       \/ /\ StageFails("fetch", 0)
          /\ UNCHANGED pArticles
    /\ UNCHANGED <<history, sent, dedupCallVars, rankVars, provVars, selVars,
                   stage4Vars, ranked_articles, summarized_articles, pUnique,
                   email_content, history_file, run_start>>

\* stage 2: deduplicator.deduplicate(articles)
Stage2Deduplicate ==
    /\ oPc = "deduplicate"
    /\ \/ /\ pUnique' = deduplicate(history, pArticles)
          /\ stage_log' = Append(stage_log, [stage |-> "deduplicate", raised |-> FALSE])
          /\ oPc' = NextStage("deduplicate", FALSE)
          /\ UNCHANGED <<outbox, execution_result>>
       \/ /\ StageFails("deduplicate", Len(pArticles))
          /\ UNCHANGED pUnique
    /\ UNCHANGED <<history, sent, dedupCallVars, rankVars, provVars, selVars,
                   stage4Vars, ranked_articles, summarized_articles, pArticles,
                   email_content, history_file, run_start>>

\* stage 3: ranker.rank_and_filter(unique_articles); ranked_articles holds
\* the article of each RankedArticle
Stage3Rank ==
    /\ oPc = "rank"
    /\ \/ /\ LET ranked == rank_and_filter(topics, now, pUnique)
             IN ranked_articles' = [i \in 1..Len(ranked) |-> ranked[i].article]
          /\ stage_log' = Append(stage_log, [stage |-> "rank", raised |-> FALSE])
          /\ oPc' = NextStage("rank", FALSE)
          /\ UNCHANGED <<outbox, execution_result>>
       \/ /\ StageFails("rank", Len(pArticles))
          /\ UNCHANGED ranked_articles
    /\ UNCHANGED <<history, sent, dedupCallVars, rankVars, provVars, selVars,
                   stage4Vars, summarized_articles, pArticles, pUnique,
                   email_content, history_file, run_start>>

\* stage 4 up to its await: group the ranked articles by topic and call
\* summarize_by_audience
Stage4StartPipe ==
    /\ oPc = "stage4"
    /\ sPc = "idle"
    /\ articles_by_topic' = GroupByTopic(ranked_articles, <<>>)
    /\ stage_log' = Append(stage_log, [stage |-> "summarize", raised |-> FALSE])
    /\ oPc' = "summarize"
    /\ sPc' = "loop"
    /\ topicIdx' = 1
    /\ results' = <<>>
    /\ UNCHANGED <<dedupVars, rankVars, provVars, selVars, config, provider_order,
                   providers, semaphore, total_input_tokens, total_output_tokens,
                   tasks, ranked_articles, summarized_articles, pArticles,
                   pUnique, email_content, outbox, execution_result,
                   history_file, run_start>>

\* stage 5: email_composer.compose(summarized_articles)
Stage5Compose ==
    /\ oPc = "compose"
    /\ \/ /\ email_content' = summarized_articles
          /\ stage_log' = Append(stage_log, [stage |-> "compose", raised |-> FALSE])
          /\ oPc' = NextStage("compose", FALSE)
          /\ UNCHANGED <<outbox, execution_result>>
       \/ /\ StageFails("compose", Len(pArticles))
          /\ UNCHANGED email_content
    /\ UNCHANGED <<history, sent, dedupCallVars, rankVars, provVars, selVars,
                   stage4Vars, ranked_articles, summarized_articles, pArticles,
                   pUnique, history_file, run_start>>

\* stage 6: email_sender.send; on True the history is updated and saved (a
\* failed save is logged and leaves the file as it was); on False or on an
\* exception the email is saved to a file and the run fails
Stage6Send ==
    /\ oPc = "send"
    /\ \E returned \in SendOutcomes, saved \in BOOLEAN :
          LET updates == returned = "True" /\ summarized_articles # <<>>
              h == HistoryAfterSend(history, returned, summarized_articles, today)
          IN /\ outbox' = Append(outbox, [what |-> "digest",
                                          articles |-> email_content,
                                          returned |-> returned])
             /\ history' = h
             /\ history_file' = IF h # history /\ saved THEN h ELSE history_file
             /\ sent' = IF updates
                        THEN Append(sent, [urls |-> {summarized_articles[i].url :
                                                     i \in 1..Len(summarized_articles)},
                                           at |-> today])
                        ELSE sent
             /\ stage_log' = Append(stage_log,
                                 [stage |-> "send", raised |-> returned = "raised"])
             /\ execution_result' =
                    IF returned = "True"
                    THEN SuccessResult(Len(pArticles), Len(summarized_articles))
                    ELSE FailedResult(Len(pArticles))
    /\ oPc' = NextStage("send", FALSE)
    /\ UNCHANGED <<dedupCallVars, rankVars, provVars, selVars, stage4Vars,
                   ranked_articles, summarized_articles, pArticles, pUnique,
                   email_content, run_start>>

NextPipe ==
    \/ Stage1Fetch
    \/ Stage2Deduplicate
    \/ Stage3Rank
    \/ Stage4StartPipe
    \/ TopicLoop
    \/ \E i \in 1..Len(tasks) : TaskAcquire(i)
    \/ \E i \in 1..Len(tasks) : ProviderCallEnds(i)
    \/ GatherDone
    \/ Stage4Returns
    \/ Stage4Raises
    \/ Stage5Compose
    \/ Stage6Send

SpecPipe == InitPipe /\ [][NextPipe]_vars

(***************************************************************************)
(* Claims about the Deduplicator (checked under SpecDedup)                 *)
(***************************************************************************)

\* C1: deduplicate is idempotent: with the history and the threshold held
\* fixed, deduplicate(deduplicate(X)) is the same list as deduplicate(X).
C1_DeduplicateIdempotent ==
    dOp = "deduplicate2" => dRes2 = dRes

\* C2: history containment: no article of the input whose url is a key of
\* the history map is in the list deduplicate returns (membership by
\* Article.__eq__, i.e. by url).
C2_HistoryContainment ==
    dOp # "none" =>
        \A i \in 1..Len(dArgs) :
            dArgs[i].url \in DOMAIN history =>
                \A j \in 1..Len(dRes) : ~ArticleEq(dRes[j], dArgs[i])

\* C2 witness: deduplicate has run on an input holding both an article
\* whose url is in the history and one that survives.
C2_Witness ==
    /\ dOp = "deduplicate"
    /\ \E i \in 1..Len(dArgs) : dArgs[i].url \in DOMAIN history
    /\ Len(dRes) > 0

\* C3: title-similarity tie-break: when the title pass is given two
\* articles (different urls) whose lower-cased titles have a ratio above
\* the threshold and whose published_at differ, it returns exactly the one
\* with the earlier published_at, in either input order.
C3_TitleTieBreak ==
    ( /\ dOp # "none"
      /\ Len(dAfterUrl) = 2
      /\ dAfterUrl[1].url # dAfterUrl[2].url
      /\ fuzz_ratio(lower(dAfterUrl[1].title), lower(dAfterUrl[2].title))
            > similarity_threshold
      /\ dAfterUrl[1].published_at # dAfterUrl[2].published_at )
    => dAfterTitle =
         << IF dAfterUrl[1].published_at < dAfterUrl[2].published_at
            THEN dAfterUrl[1] ELSE dAfterUrl[2] >>

\* C3 witness: the title pass ran on two similar articles with different
\* titles, the later-published one first in the input.
C3_Witness ==
    /\ dOp = "deduplicate"
    /\ Len(dAfterUrl) = 2
    /\ dAfterUrl[1].title # dAfterUrl[2].title
    /\ fuzz_ratio(lower(dAfterUrl[1].title), lower(dAfterUrl[2].title))
          > similarity_threshold
    /\ dAfterUrl[1].published_at > dAfterUrl[2].published_at
    /\ dAfterTitle = <<dAfterUrl[2]>>

\* indexes of the input articles that are the first to carry their url
FirstOccurrences(articles) ==
    {i \in 1..Len(articles) :
        \A j \in 1..(i - 1) : articles[j].url # articles[i].url}

\* the k-th smallest element of a finite set of integers
KthSmallest(I, k) ==
    CHOOSE i \in I : Cardinality({j \in I : j < i}) = k - 1

\* C4: URL-pass invariant: the list _deduplicate_by_url returns has no two
\* articles with the same url, and is exactly the input restricted to the
\* first article carrying each url, in order of first occurrence.
C4_UrlPassInvariant ==
    dOp # "none" =>
        LET firsts == FirstOccurrences(dArgs)
        IN /\ \A i, j \in 1..Len(dAfterUrl) :
                  i # j => dAfterUrl[i].url # dAfterUrl[j].url
           /\ Len(dAfterUrl) = Cardinality(firsts)
           /\ \A k \in 1..Len(dAfterUrl) :
                  dAfterUrl[k] = dArgs[KthSmallest(firsts, k)]

\* C4 witness: the URL pass dropped a later article that shares its url
\* with an earlier one of a different title, and kept two articles.
C4_Witness ==
    /\ dOp = "deduplicate"
    /\ Len(dAfterUrl) = 2
    /\ \E i, j \in 1..Len(dArgs) :
          /\ i < j
          /\ dArgs[i].url = dArgs[j].url
          /\ dArgs[i].title # dArgs[j].title

(***************************************************************************)
(* Claims about the MultiProviderSummarizer (checked under SpecSumm)       *)
(***************************************************************************)

\* a provider call whose result the summarizer rejects: it raised, or it
\* returned fewer than 3 bullets
CallFailed(entry) == entry.kind # "ok" \/ Len(entry.bullets) < 3

\* C5: provider chain exhaustion: when every provider of the chain raised
\* (ProviderAPIError or another exception) or returned fewer than 3 bullets
\* for an article, the SummarizedArticle of that article has
\* summarization_failed = True and no bullets.
C5_ChainExhaustion ==
    \A i \in 1..Len(tasks) :
        ( /\ tasks[i].pc = "done"
          /\ Len(tasks[i].log) = Len(get_provider_chain(provider_order))
          /\ \A k \in 1..Len(tasks[i].log) : CallFailed(tasks[i].log[k]) )
        => /\ SummarizedOf(tasks[i]).summarization_failed = TRUE
           /\ SummarizedOf(tasks[i]).summary_bullets = <<>>

\* C5 witness: a walk over a chain of two providers ended after one raised
\* and the other returned two bullets.
C5_Witness ==
    \E i \in 1..Len(tasks) :
        /\ tasks[i].pc = "done"
        /\ Len(tasks[i].log) = 2
        /\ Len(provider_order) = 2
        /\ tasks[i].log[1].kind = "api_error"
        /\ tasks[i].log[2].kind = "ok"
        /\ Len(tasks[i].log[2].bullets) = 2
        /\ SummarizedOf(tasks[i]).summarization_failed

\* C6: fallback order: the providers called for an article are a prefix of
\* get_provider_chain(), in that order and each at most once; the first
\* call that returns at least 3 bullets is the last call of the walk, and
\* the result carries its bullets (the first 5) with
\* summarization_failed = False.
C6_FallbackOrder ==
    \A i \in 1..Len(tasks) :
        LET t == tasks[i]
            chain == get_provider_chain(provider_order)
        IN /\ Len(t.log) <= Len(chain)
           /\ \A k \in 1..Len(t.log) : t.log[k].provider_id = chain[k]
           /\ \A k, m \in 1..Len(t.log) :
                  k # m => t.log[k].provider_id # t.log[m].provider_id
           /\ \A k \in 1..Len(t.log) :
                  ~CallFailed(t.log[k]) =>
                      /\ k = Len(t.log)
                      /\ t.pc = "done"
                      /\ t.result.kind = "value"
                      /\ t.result.value.summarization_failed = FALSE
                      /\ t.result.value.summary_bullets
                            = SubSeq(t.log[k].bullets, 1,
                                     IF Len(t.log[k].bullets) < 5
                                     THEN Len(t.log[k].bullets) ELSE 5)

\* C6 witness: the first provider of the chain raised and the second
\* returned 3 bullets, which the result carries.
C6_Witness ==
    \E i \in 1..Len(tasks) :
        /\ tasks[i].pc = "done"
        /\ Len(tasks[i].log) = 2
        /\ tasks[i].log[1].kind = "api_error"
        /\ tasks[i].log[2].kind = "ok"
        /\ Len(tasks[i].log[2].bullets) = MinBullets
        /\ tasks[i].result.kind = "value"
        /\ tasks[i].result.value.summary_bullets = tasks[i].log[2].bullets
        /\ ~tasks[i].result.value.summarization_failed

\* C7: bullet truncation: when the accepted provider returned more than 5
\* bullets, summary_bullets has length exactly 5 and is the first 5 of the
\* returned bullets in their order.
C7_BulletTruncation ==
    \A i \in 1..Len(tasks) :
        LET t == tasks[i]
        IN ( /\ t.pc = "done"
             /\ t.log # <<>>
             /\ ~CallFailed(t.log[Len(t.log)])
             /\ Len(t.log[Len(t.log)].bullets) > 5 )
           => /\ Len(SummarizedOf(t).summary_bullets) = 5
              /\ \A k \in 1..5 :
                    SummarizedOf(t).summary_bullets[k] = t.log[Len(t.log)].bullets[k]

\* C7 witness: a walk accepted a call that returned 6 bullets.
C7_Witness ==
    \E i \in 1..Len(tasks) :
        /\ tasks[i].pc = "done"
        /\ tasks[i].log # <<>>
        /\ tasks[i].log[Len(tasks[i].log)].kind = "ok"
        /\ Len(tasks[i].log[Len(tasks[i].log)].bullets) = 6
        /\ Len(SummarizedOf(tasks[i]).summary_bullets) = 5

\* C8: no article is dropped by summarization: whatever the provider calls
\* did, summarize_by_audience returns for every input topic a list with
\* exactly one SummarizedArticle per input article, in the same order and
\* with the same url.
C8_NoArticleDropped ==
    sPc = "returned" =>
        /\ Len(results) = Len(articles_by_topic)
        /\ \A k \in 1..Len(results) :
              /\ results[k].topic = articles_by_topic[k].topic
              /\ Len(results[k].summarized) = Len(articles_by_topic[k].articles)
              /\ \A i \in 1..Len(results[k].summarized) :
                    results[k].summarized[i].url
                        = articles_by_topic[k].articles[i].url

\* C8 witness: summarize_by_audience returned a topic of two articles, the
\* first failed and the second summarized.
C8_Witness ==
    /\ sPc = "returned"
    /\ \E k \in 1..Len(results) :
          /\ Len(results[k].summarized) = 2
          /\ results[k].summarized[1].summarization_failed
          /\ ~results[k].summarized[2].summarization_failed

\* C9: delivery shape invariant: every SummarizedArticle given to the
\* composer has summarization_failed = True and no bullets, or
\* summarization_failed = False and 3 to 5 bullets.
C9_DeliveryShape ==
    oPc = "compose" =>
        \A i \in 1..Len(summarized_articles) :
            LET a == summarized_articles[i]
            IN /\ a.summarization_failed <=> (a.summary_bullets = <<>>)
               /\ \/ Len(a.summary_bullets) = 0
                  \/ (3 <= Len(a.summary_bullets) /\ Len(a.summary_bullets) <= 5)

\* C9 witness: the composer is given one failed article and one with 5
\* bullets, after summarize_by_audience returned.
C9_Witness ==
    /\ oPc = "compose"
    /\ sPc = "returned"
    /\ \E i, j \in 1..Len(summarized_articles) :
          /\ summarized_articles[i].summarization_failed
          /\ Len(summarized_articles[j].summary_bullets) = 5

(***************************************************************************)
(* Claims about the ArticleRanker (checked under SpecRank)                 *)
(***************************************************************************)

\* C10: ranker cap: for every configured topic T, the number of
\* RankedArticles of topic T that rank_and_filter returns is at most
\* TopicConfig[T].max_articles_per_day.
C10_RankerCap ==
    rOp = "rank_and_filter" =>
        \A T \in DOMAIN topics :
            Cardinality({i \in 1..Len(rRes) : rRes[i].article.topic = T})
                <= topics[T].max_articles_per_day

\* the positions of rScored that hold an article of topic T meeting T's
\* min_quality_score
Qualifying(T) ==
    {j \in 1..Len(rScored) :
        /\ rScored[j].article.topic = T
        /\ rScored[j].quality_score >= topics[T].min_quality_score}

\* the positions of rRes that hold an article of topic T
ReturnedOf(T) == {i \in 1..Len(rRes) : rRes[i].article.topic = T}

\* C11: top-k selection: for every configured topic T, rank_and_filter
\* returns exactly min(max_articles_per_day, q) articles of T, q being the
\* number of input articles of T with score >= min_quality_score; every
\* returned article has score >= min_quality_score; and no article of T that
\* met the threshold and was left out has a strictly higher score than a
\* returned one.
C11_TopK ==
    rOp = "rank_and_filter" =>
        \A T \in DOMAIN topics :
            LET q == Cardinality(Qualifying(T))
                cap == topics[T].max_articles_per_day
            IN /\ Cardinality(ReturnedOf(T)) = IF cap < q THEN cap ELSE q
               /\ \A i \in ReturnedOf(T) :
                      rRes[i].quality_score >= topics[T].min_quality_score
               /\ \A j \in Qualifying(T) :
                      (\A i \in ReturnedOf(T) : rRes[i].article.url # rScored[j].article.url)
                          => \A i \in ReturnedOf(T) :
                                 rScored[j].quality_score <= rRes[i].quality_score

\* C11, the run that shows the divergence: the cap of "ai" is -1, two
\* articles of "ai" meet the threshold and one of them is returned.
C11_Witness ==
    /\ rOp = "rank_and_filter"
    /\ topics["ai"].max_articles_per_day = 0 - 1
    /\ Cardinality(Qualifying("ai")) = 2
    /\ Cardinality(ReturnedOf("ai")) = 1

\* C12: stable descending order: within each topic the RankedArticles
\* returned by rank_and_filter are in non-increasing quality_score order,
\* and articles of the topic with equal score keep the relative order they
\* had in the input list (urls of the input are its positions).
C12_StableDescending ==
    rOp = "rank_and_filter" =>
        \A i, j \in 1..Len(rRes) :
            (i < j /\ rRes[i].article.topic = rRes[j].article.topic) =>
                /\ rRes[i].quality_score >= rRes[j].quality_score
                /\ rRes[i].quality_score = rRes[j].quality_score
                       => rRes[i].article.url < rRes[j].article.url

\* C12 witness: two articles of one topic were returned in the reverse of
\* their input order (the later one scores higher), and two with equal
\* scores were returned in their input order.
C12_Witness ==
    /\ rOp = "rank_and_filter"
    /\ \E i, j \in 1..Len(rRes) :
          /\ i < j
          /\ rRes[i].article.topic = rRes[j].article.topic
          /\ rRes[i].article.url > rRes[j].article.url
          /\ rRes[i].quality_score > rRes[j].quality_score
    /\ \E i, j \in 1..Len(rRes) :
          /\ i < j
          /\ rRes[i].article.topic = rRes[j].article.topic
          /\ rRes[i].quality_score = rRes[j].quality_score

\* sub-scores are kept times 10000, scores times 1000
SubScoreOne == 10000

ScoreOne == 1000

\* the source of the article matches an entry of its topic's trusted_sources
TrustedSource(article) ==
    /\ article.topic \in DOMAIN topics
    /\ \E k \in 1..Len(topics[article.topic].trusted_sources) :
          \/ IsSubstring(lower(topics[article.topic].trusted_sources[k]),
                         lower(article.source))
          \/ IsSubstring(lower(article.source),
                         lower(topics[article.topic].trusted_sources[k]))

\* C13: scoring bounds: for every article (any content length >= 0, any
\* published_at, any source, configured or unconfigured topic)
\* calculate_score returns a value in [0,1], each of the three sub-scores is
\* in [0,1], and content length 1500 or more with age under 24h and a
\* trusted source gives exactly 1.0.
C13_ScoringBounds ==
    \A k \in 1..Len(scoreCalls) :
        LET c == scoreCalls[k]
        IN /\ 0 <= c.score /\ c.score <= ScoreOne
           /\ 0 <= _score_content_depth(c.article)
           /\ _score_content_depth(c.article) <= SubScoreOne
           /\ 0 <= _score_recency(c.clock, c.article)
           /\ _score_recency(c.clock, c.article) <= SubScoreOne
           /\ 0 <= _score_source_trust(topics, c.article)
           /\ _score_source_trust(topics, c.article) <= SubScoreOne
           /\ (/\ c.article.content_length >= 1500
               /\ c.clock - c.article.published_at < 24
               /\ TrustedSource(c.article))
                  => c.score = ScoreOne

\* C13 witness: calculate_score was called with an article of 3000
\* characters, less than a day old, from a trusted source, and returned 1.0.
C13_Witness ==
    \E k \in 1..Len(scoreCalls) :
        /\ scoreCalls[k].article.content_length = 3000
        /\ scoreCalls[k].clock - scoreCalls[k].article.published_at < 24
        /\ scoreCalls[k].clock - scoreCalls[k].article.published_at >= 0
        /\ TrustedSource(scoreCalls[k].article)
        /\ scoreCalls[k].score = ScoreOne

\* the band of _score_recency an age in hours falls in
RecencyBand(age) ==
    IF age < 24 THEN 1 ELSE IF age < 48 THEN 2 ELSE IF age < 72 THEN 3 ELSE 4

\* C14 as stated: scoring determinism: calculate_score applied twice to the
\* same article under the same topic configuration returns the same value
\* on both calls, whenever the two calls are made.
C14_ScoringDeterminism ==
    Len(scoreCalls) = 2 => scoreCalls[1].score = scoreCalls[2].score

\* C14 amended: calculate_score applied twice to the same article under the
\* same topic configuration returns the same value on both calls whenever
\* the article's age at the two calls falls in the same recency band
\* (under 24h, 24-48h, 48-72h, 72h or more).
C14_ScoringDeterminismSameBand ==
    (/\ Len(scoreCalls) = 2
     /\ RecencyBand(scoreCalls[1].clock - scoreCalls[1].article.published_at)
            = RecencyBand(scoreCalls[2].clock - scoreCalls[2].article.published_at))
        => scoreCalls[1].score = scoreCalls[2].score

\* C14 witness: the clock moved between the two calls, the article stayed
\* in its band and both calls returned the same score.
C14_Witness ==
    /\ Len(scoreCalls) = 2
    /\ scoreCalls[1].clock < scoreCalls[2].clock
    /\ scoreCalls[2].clock - scoreCalls[2].article.published_at < 24
    /\ scoreCalls[1].clock - scoreCalls[1].article.published_at >= 0
    /\ scoreCalls[1].score = scoreCalls[2].score

(***************************************************************************)
(* Claims about AIProvider.summarize_async (checked under SpecProv)        *)
(***************************************************************************)

\* the positions of a trace that are backend attempts
AttemptsOf(trace) == {k \in 1..Len(trace) : trace[k].what = "attempt"}

\* C15: rate-limit retry budget: in one summarize_async call, after a
\* rate-limit error on attempt 0 or 1 the provider sleeps 2^attempt seconds
\* (1s, then 2s) and tries again; it makes at most 3 backend attempts, and
\* when all 3 hit a rate limit it raises ProviderAPIError without a further
\* sleep instead of returning an empty result; a success on any attempt
\* returns that attempt's bullets.
C15_RetryBudget ==
    \A i \in 1..Len(provCalls) :
        LET c == provCalls[i]
            tr == c.trace
        IN /\ Cardinality(AttemptsOf(tr)) <= 3
           /\ \A k \in AttemptsOf(tr) :
                 /\ (tr[k].kind = "rate_limit" /\ tr[k].attempt < 2) =>
                        /\ k < Len(tr)
                        /\ tr[k + 1].what = "sleep"
                        /\ tr[k + 1].seconds = (IF tr[k].attempt = 0 THEN 1 ELSE 2)
                        /\ IF k + 1 = Len(tr)
                           THEN \/ c.pc = "sleeping"
                                \/ c.pc = "backend" /\ c.attempt = tr[k].attempt + 1
                           ELSE /\ tr[k + 2].what = "attempt"
                                /\ tr[k + 2].attempt = tr[k].attempt + 1
                 /\ (tr[k].kind = "rate_limit" /\ tr[k].attempt >= 2) =>
                        /\ k = Len(tr)
                        /\ tr[k].attempt = 2
                        /\ c.pc = "raised"
                        /\ c.result = RaisedProviderAPIError
                 /\ tr[k].kind = "ok" =>
                        /\ k = Len(tr)
                        /\ c.pc = "returned"
                        /\ c.result.kind = "value"
                        /\ c.result.value.bullets = tr[k].bullets

\* C15 witness: a call was rate-limited three times, slept 1s and 2s in
\* between and raised ProviderAPIError.
C15_Witness ==
    \E i \in 1..Len(provCalls) :
        /\ provCalls[i].pc = "raised"
        /\ Len(provCalls[i].trace) = 5
        /\ \A k \in {1, 3, 5} : provCalls[i].trace[k].kind = "rate_limit"
        /\ provCalls[i].trace[2].seconds = 1
        /\ provCalls[i].trace[4].seconds = 2

\* C16: no retry on other errors: when a backend attempt inside
\* summarize_async fails with any error that is not a rate-limit error, the
\* provider raises ProviderAPIError right after that attempt, with no sleep
\* and no further backend attempt in that call, even if earlier attempts of
\* the same call were rate-limited.
C16_NoRetryOnOtherErrors ==
    \A i \in 1..Len(provCalls) :
        \A k \in AttemptsOf(provCalls[i].trace) :
            provCalls[i].trace[k].kind \in {"api_error", "error"} =>
                /\ k = Len(provCalls[i].trace)
                /\ provCalls[i].pc = "raised"
                /\ provCalls[i].result = RaisedProviderAPIError

\* C16 witness: a call was rate-limited on attempt 0, slept, met an API
\* error on attempt 1 and raised.
C16_Witness ==
    \E i \in 1..Len(provCalls) :
        /\ provCalls[i].pc = "raised"
        /\ Len(provCalls[i].trace) = 3
        /\ provCalls[i].trace[1].kind = "rate_limit"
        /\ provCalls[i].trace[3].kind = "api_error"

\* the calls that have come to an end
Completed == {i \in 1..Len(provCalls) : provCalls[i].pc \in {"returned", "raised"}}

Successful == {i \in 1..Len(provCalls) : provCalls[i].pc = "returned"}

RECURSIVE SumOver(_, _)
SumOver(I, f) ==
    IF I = {} THEN 0
    ELSE LET i == CHOOSE x \in I : TRUE IN f[i] + SumOver(I \ {i}, f)

\* C18: metrics updates are serialized per provider: under every
\* interleaving of concurrent summarize_async calls on the same provider
\* (suspension only at backend calls and backoff sleeps) no counter update
\* is lost: total_requests equals the number of completed calls, and
\* total_input_tokens and total_output_tokens equal the sums over the
\* successful calls, at every moment and so once all calls have completed.
C18_MetricsSerialized ==
    /\ metrics.total_requests = Cardinality(Completed)
    /\ metrics.successful_requests = Cardinality(Successful)
    /\ metrics.failed_requests = Cardinality(Completed \ Successful)
    /\ metrics.total_input_tokens =
           SumOver(Successful, [i \in Successful |-> provCalls[i].result.value.input_tokens])
    /\ metrics.total_output_tokens =
           SumOver(Successful, [i \in Successful |-> provCalls[i].result.value.output_tokens])

\* C18 witness: the second call started while the first was suspended, the
\* first was rate-limited once and retried, both returned and both are
\* counted.
C18_Witness ==
    /\ Len(provCalls) = 2
    /\ provCalls[2].in_flight = 1
    /\ Completed = {1, 2}
    /\ Successful = {1, 2}
    /\ Len(provCalls[1].trace) = 3
    /\ Len(provCalls[2].trace) = 1
    /\ metrics.total_requests = 2
    /\ metrics.total_input_tokens =
           provCalls[1].result.value.input_tokens + provCalls[2].result.value.input_tokens

(***************************************************************************)
(* Claims about the ProviderSelector (checked under SpecSel)               *)
(***************************************************************************)

\* the position in config.providers of the config with this provider_id
ConfigPosition(id) ==
    CHOOSE i \in 1..Len(config.providers) : config.providers[i].provider_id = id

\* the key the strategy sorts by
SortKey(c) ==
    IF config.provider_strategy = "cost"
    THEN 1500 * c.input_cost_per_1M_tokens + 200 * c.output_cost_per_1M_tokens
    ELSE c.priority

\* C19: selector ordering: get_provider_chain() lists exactly the
\* provider_ids of the enabled configs, one entry per enabled config and
\* none for a disabled one; the list is ascending by priority when the
\* strategy is 'priority', 'performance' or any unrecognised string, and
\* ascending by estimated_cost_per_request (1500 input / 200 output tokens)
\* when it is 'cost'; configs with equal keys keep their configuration order.
C19_SelectorOrdering ==
    selOp = "chain" =>
        /\ \A i \in 1..Len(config.providers) :
              Cardinality({k \in 1..Len(provider_chain) :
                              provider_chain[k] = config.providers[i].provider_id})
                  = IF config.providers[i].enabled THEN 1 ELSE 0
        /\ \A k \in 1..Len(provider_chain) :
              \E i \in 1..Len(config.providers) :
                  provider_chain[k] = config.providers[i].provider_id
        /\ \A k, l \in 1..Len(provider_chain) :
              k < l =>
                  LET a == config.providers[ConfigPosition(provider_chain[k])]
                      b == config.providers[ConfigPosition(provider_chain[l])]
                  IN /\ SortKey(a) <= SortKey(b)
                     /\ SortKey(a) = SortKey(b)
                            => ConfigPosition(provider_chain[k]) < ConfigPosition(provider_chain[l])

\* C19 witness: an unrecognised strategy, three configs of which the second
\* is disabled, the third has the better priority and comes first.
C19_Witness ==
    /\ selOp = "chain"
    /\ config.provider_strategy = "fastest"
    /\ Len(config.providers) = 3
    /\ ~config.providers[2].enabled
    /\ provider_chain = <<"p3", "p1">>

(***************************************************************************)
(* Claims about the history over several runs (checked under SpecHist)     *)
(***************************************************************************)

\* the update_history call k is not followed by one made more than
\* CleanupDays after it: its entries have not been pruned by age
NotPrunedByAge(k) ==
    \A j \in (k + 1)..Len(sent) : sent[j].at - sent[k].at <= CleanupDays

\* C20: sent articles are not resent: after update_history(S) every article
\* of S has its url in the history map, and every later deduplicate call on
\* that Deduplicator, as long as the entry has not been pruned by age,
\* returns a list containing no article whose url is in S.
C20_SentNotResent ==
    \A k \in 1..Len(sent) :
        NotPrunedByAge(k) =>
            \A u \in sent[k].urls :
                /\ u \in DOMAIN history
                /\ dOp = "deduplicate" =>
                       \A i \in 1..Len(dRes) : dRes[i].url # u

\* C20 witness: u1 was sent, thirty days passed, a second update_history
\* call without u1 kept its entry, and a deduplicate call that was given u1
\* again returned a list without it.
C20_Witness ==
    /\ dOp = "deduplicate"
    /\ Len(sent) = 2
    /\ "u1" \in sent[1].urls
    /\ "u1" \notin sent[2].urls
    /\ sent[2].at - sent[1].at = CleanupDays
    /\ \E i \in 1..Len(dArgs) : dArgs[i].url = "u1"
    /\ \E i \in 1..Len(dRes) : dRes[i].url # "u1"
    /\ \A i \in 1..Len(dRes) : dRes[i].url # "u1"

(***************************************************************************)
(* Claims about the summarizer's semaphore (checked under SpecBatch)       *)
(***************************************************************************)

\* the chain walks in flight: a provider call started, no result yet
InFlight == {i \in 1..Len(tasks) : tasks[i].pc = "calling"}

\* chain walk i exists and waits for the semaphore
Waiting(i) == i <= Len(tasks) /\ tasks[i].pc = "start"

\* C17: summarization concurrency bound: at every moment of a run at most 5
\* article chain-walks of one MultiProviderSummarizer are in flight (between
\* starting the first provider call and producing the article's result),
\* however many articles and topics the run has; the remaining articles
\* wait and each of them eventually gets its turn.
C17_ConcurrencyBound ==
    /\ [](Cardinality(InFlight) <= 5 /\ semaphore = SemaphoreSize - Cardinality(InFlight))
    /\ \A i \in 1..MaxBatch : Waiting(i) ~> ~Waiting(i)

\* C17 witness: five chain walks are in flight and another one waits.
C17_Witness ==
    /\ Cardinality(InFlight) = 5
    /\ \E i \in 1..Len(tasks) : Waiting(i)

(***************************************************************************)
(* Claims about the retention of the history (checked under SpecRetain)    *)
(***************************************************************************)

\* C21: history pruning follows the configured retention: update_history
\* removes exactly the entries whose sent_at is older than the configured
\* history_days (default 30) and keeps every other entry, including the ones
\* it has just added.
C21_PruningFollowsRetention ==
    [][sent' # sent =>
          LET added == sent'[Len(sent')].urls
              stamp(u) == IF u \in added THEN today ELSE history[u].sent_at
          IN /\ DOMAIN history' =
                   {u \in DOMAIN history \cup added : stamp(u) >= today - history_days}
             /\ \A u \in DOMAIN history' : history'[u].sent_at = stamp(u)]_vars

\* C21 witness: update_history has just run under a retention of one day and
\* the history holds an entry sent more than a day ago.
C21_Witness ==
    /\ sent # <<>>
    /\ sent[Len(sent)].at = today
    /\ history_days = 1
    /\ \E u \in DOMAIN history : history[u].sent_at < today - history_days

(***************************************************************************)
(* Claims about the deduplication counters (checked under SpecDedup)       *)
(***************************************************************************)

\* the urls of a list of articles
UrlsOf(articles) == {articles[i].url : i \in 1..Len(articles)}

\* the counters are the numbers of articles the URL pass, the title pass and
\* the history pass removed, and they sum to len(X) minus the output length
CountersCountRemovals ==
    /\ stats.url_duplicates = Len(dArgs) - Cardinality(UrlsOf(dArgs))
    /\ stats.title_duplicates =
           Cardinality({i \in 1..Len(dAfterUrl) : dAfterUrl[i].url \notin UrlsOf(dAfterTitle)})
    /\ stats.url_duplicates + stats.title_duplicates + stats.history_filtered
           = Len(dArgs) - Len(dRes)
    /\ \A i \in 1..Len(dAfterTitle) :
           dAfterTitle[i].url \in DOMAIN history
               => dAfterTitle[i].url \notin UrlsOf(dRes)

RemovedByTitle ==
    {i \in 1..Len(dAfterUrl) : dAfterUrl[i].url \notin UrlsOf(dAfterTitle)}

\* C29: every title-duplicate has a surviving representative: for every
\* input list (any number of articles), each article removed by the
\* title-similarity pass has, in the output of that pass, an article whose
\* title similarity with it exceeds the threshold and whose published_at is
\* not later than its own.
C29_SurvivingRepresentative ==
    dOp = "deduplicate" =>
        \A i \in RemovedByTitle :
            \E k \in 1..Len(dAfterTitle) :
                /\ similarity(dAfterUrl[i], dAfterTitle[k]) > similarity_threshold
                /\ dAfterTitle[k].published_at <= dAfterUrl[i].published_at

\* C29 witness: the title pass removed two of three articles.
C29_Witness ==
    /\ dOp = "deduplicate"
    /\ Len(dAfterUrl) = 3
    /\ Cardinality(RemovedByTitle) = 2

(***************************************************************************)
(* Claims about the metrics of one provider (checked under SpecProv)       *)
(***************************************************************************)

\* the counters of ProviderMetrics that only count up
CountingFields ==
    {"total_requests", "successful_requests", "failed_requests",
     "total_input_tokens", "total_output_tokens"}

EnabledIds ==
    {config.providers[i].provider_id :
        i \in {k \in 1..Len(config.providers) : config.providers[k].enabled}}

\* C28: selector and registry agree: when both are built from the same
\* provider configs, the set of ids in get_provider_chain() equals the set
\* of ids registered in the registry (exactly the enabled configs), so
\* registry.get_provider never raises 'Provider not found' during a chain
\* walk and a disabled provider is never called.
C28_SelectorRegistryAgree ==
    selOp = "chain" =>
        /\ Range(provider_chain) = providers
        /\ providers = EnabledIds
        /\ \A k \in 1..Len(provider_chain) :
              NextProvider(NewTask([url |-> 1, topic |-> "ai"], "beginner"),
                           provider_chain, providers, k).pc = "calling"

\* C28 witness: three configs, the first disabled and alone with its id, the
\* other two enabled and sharing an id.
C28_Witness ==
    /\ selOp = "chain"
    /\ Len(config.providers) = 3
    /\ ~config.providers[1].enabled
    /\ config.providers[1].provider_id = "p1"
    /\ provider_chain = <<"p2", "p2">>
    /\ providers = {"p2"}


(***************************************************************************)
(* Claims about chain walks over real provider calls (checked under        *)
(* SpecWalk)                                                               *)
(***************************************************************************)

\* no chain walk is suspended in a provider call
NoCallInProgress == \A i \in 1..Len(tasks) : tasks[i].pc # "calling"

\* C23: token accounting: whenever no provider call is in progress, the
\* summarizer's total_input_tokens (resp. total_output_tokens) equals the
\* sum over the registered providers of the provider's metrics
\* total_input_tokens (resp. total_output_tokens), the tokens of calls
\* rejected for fewer than 3 bullets included.
C23_TokenAccounting ==
    NoCallInProgress =>
        /\ total_input_tokens =
              SumOver(providers, [id \in providers |->
                                     provider_metrics[id].total_input_tokens])
        /\ total_output_tokens =
              SumOver(providers, [id \in providers |->
                                     provider_metrics[id].total_output_tokens])

\* two providers have answered, one of them with too few bullets, and no
\* call is in progress
C23_Witness ==
    /\ NoCallInProgress
    /\ \E i \in 1..Len(tasks) :
          /\ tasks[i].pc = "done"
          /\ Len(tasks[i].log) = 2
          /\ tasks[i].log[1].kind = "ok"
          /\ ~EnoughBullets(tasks[i].log[1].bullets)
          /\ tasks[i].log[2].kind = "ok"
    /\ \A id \in providers : provider_metrics[id].total_input_tokens > 0
    /\ total_output_tokens > 0

\* the backend attempts of a sequence of summarize_async calls
RECURSIVE TotalAttempts(_)
TotalAttempts(calls) ==
    IF calls = <<>> THEN 0
    ELSE Cardinality(AttemptsOf(Head(calls).trace)) + TotalAttempts(Tail(calls))

\* the walk of task t so far: one call per chain entry in chain order, three
\* attempts a call at most, a SummarizedArticle at its end
WalkWithinChain(t) ==
    LET chain == get_provider_chain(provider_order)
        calls == CallsOf(t.article.url)
    IN /\ Len(t.log) <= Len(chain)
       /\ \A k \in 1..Len(t.log) : t.log[k].provider_id = chain[k]
       /\ Len(calls) <= Len(chain)
       /\ Len(calls) \in {Len(t.log), Len(t.log) + 1}
       /\ TotalAttempts(calls) <= MaxAttempts * Len(chain)
       /\ t.pc = "done" =>
             /\ t.result.kind = "value"
             /\ t.result.value.url = t.article.url
             /\ Len(calls) = Len(t.log)
       /\ (t.pc = "done" /\ chain = <<>>) =>
             /\ calls = <<>>
             /\ t.result.value.summarization_failed
             /\ t.result.value.summary_bullets = <<>>

\* C30: the chain walk terminates: when every backend call returns or
\* raises, each article's walk ends with a SummarizedArticle after calling
\* each provider of the chain at most once, so after at most 3 x len(chain)
\* backend attempts; with an empty chain it returns the failed result
\* without calling a provider; every article of a batch eventually gets a
\* result.
C30_ChainWalkTerminates ==
    /\ [](\A i \in 1..Len(tasks) : WalkWithinChain(tasks[i]))
    /\ (oPc = "summarize")
          ~> /\ oPc # "summarize"
             /\ \A i \in 1..Len(tasks) : tasks[i].pc = "done"
             /\ \A k \in 1..Len(ranked_articles) :
                   \E j \in 1..Len(summarized_articles) :
                       summarized_articles[j].url = ranked_articles[k].url

\* a walk that used every attempt of every provider of a chain of two
C30_Witness ==
    \E i \in 1..Len(tasks) :
        /\ tasks[i].pc = "done"
        /\ Len(get_provider_chain(provider_order)) = 2
        /\ Len(CallsOf(tasks[i].article.url)) = 2
        /\ TotalAttempts(CallsOf(tasks[i].article.url)) = 2 * MaxAttempts
        /\ tasks[i].result.value.summarization_failed


(***************************************************************************)
(* Claims about PipelineOrchestrator.run_pipeline (checked under SpecPipe) *)
(***************************************************************************)

\* run_pipeline has returned success=True
RunSucceeded ==
    /\ execution_result.kind = "value"
    /\ execution_result.success

\* run_pipeline has returned success=False
RunFailed ==
    /\ execution_result.kind = "value"
    /\ ~execution_result.success

\* the positions of the composed list that hold the article with this url
DeliveredAt(url) ==
    {j \in 1..Len(email_content) : email_content[j].url = url}

\* C24: degraded delivery: in a run where fetch, deduplication, ranking,
\* composition and sending succeed, every ranked article is in the list
\* given to the composer, also when its summarization failed or the whole
\* summarization stage raised; such articles carry summarization_failed =
\* True, are counted in articles_sent, and are added to the history like
\* the summarized ones.
C24_DegradedDelivery ==
    RunSucceeded =>
        /\ \A k \in 1..Len(ranked_articles) :
              /\ Cardinality(DeliveredAt(ranked_articles[k].url)) = 1
              /\ ranked_articles[k].url \in DOMAIN history
              /\ history[ranked_articles[k].url].sent_at = today
        /\ Len(email_content) = Len(ranked_articles)
        /\ execution_result.articles_sent = Len(ranked_articles)
        /\ \A j \in 1..Len(email_content) :
              /\ email_content[j].summarization_failed
                    <=> email_content[j].summary_bullets = <<>>
              /\ sPc = "raised" => email_content[j].summarization_failed
        /\ outbox[Len(outbox)] =
              [what |-> "digest", articles |-> email_content, returned |-> "True"]

\* a successful run that delivered one summarized article and one whose
\* every provider failed
C24_Witness ==
    /\ RunSucceeded
    /\ sPc = "returned"
    /\ Len(ranked_articles) = 2
    /\ \E j \in 1..2 :
          /\ email_content[j].summarization_failed
          /\ ~email_content[3 - j].summarization_failed
          /\ email_content[j].url \in DOMAIN history

\* a step that changes the history map or the history file
HistoryChanges == history' # history \/ history_file' # history_file

\* C25: the history is written only after a successful send: within
\* run_pipeline the history map is modified only by the update_history
\* call that follows email_sender.send returning True, after summarization
\* has completed; in every run that ends with success=False the history
\* map and the history file are the same as before the run.
C25_HistoryAfterSend ==
    /\ [](RunFailed => /\ history = run_start.history
                       /\ history_file = run_start.history_file)
    /\ [][HistoryChanges =>
             /\ oPc = "send"
             /\ sPc \in {"returned", "raised"}
             /\ Len(outbox') = Len(outbox) + 1
             /\ outbox'[Len(outbox')].what = "digest"
             /\ outbox'[Len(outbox')].returned = "True"
             /\ history' = update_history(history, summarized_articles, today)
             /\ history_file' \in {history_file, history'}
             /\ execution_result'.kind = "value"
             /\ execution_result'.success]_vars

\* a run that composed a digest with a new article and failed at sending
C25_Witness ==
    /\ RunFailed
    /\ Len(stage_log) = 6
    /\ outbox[Len(outbox)].what = "digest"
    /\ outbox[Len(outbox)].returned = "False"
    /\ \E j \in 1..Len(email_content) : email_content[j].url \notin DOMAIN history

\* the stage raised
StageRaised(stage) ==
    IF stage = "summarize" THEN sPc = "raised"
    ELSE \E k \in 1..Len(stage_log) :
            stage_log[k] = [stage |-> stage, raised |-> TRUE]

\* the stage was entered
StageRan(stage) == \E k \in 1..Len(stage_log) : stage_log[k].stage = stage

\* the digest was handed to email_sender.send
DigestSent == \E k \in 1..Len(outbox) : outbox[k].what = "digest"

\* C26: stage sequencing and containment: run_pipeline runs the stages in
\* the order fetch, deduplicate, rank, summarize, compose, send and never
\* raises; when fetch, deduplicate, rank or compose raises, no later stage
\* runs, the digest is not sent, and the result has success=False and
\* articles_sent=0; when the summarize stage raises, compose and send still
\* run; the result has success=True only if send returned True.
C26_StageContainment ==
    /\ Len(stage_log) <= Len(StageOrder)
    /\ \A k \in 1..Len(stage_log) : stage_log[k].stage = StageOrder[k]
    /\ (oPc = "returned") <=> (execution_result.kind = "value")
    /\ \A stage \in {"fetch", "deduplicate", "rank", "compose"} :
          StageRaised(stage) =>
              /\ stage_log[Len(stage_log)].stage = stage
              /\ ~DigestSent
              /\ RunFailed
              /\ execution_result.articles_sent = 0
    /\ (StageRaised("summarize") /\ oPc = "returned") =>
          /\ StageRan("compose")
          /\ ~StageRaised("compose") => StageRan("send")
    /\ RunSucceeded =>
          \E k \in 1..Len(outbox) :
              outbox[k].what = "digest" /\ outbox[k].returned = "True"

\* the summarize stage raised and the digest of two articles still went out
C26_Witness ==
    /\ StageRaised("summarize")
    /\ RunSucceeded
    /\ Len(stage_log) = 6
    /\ execution_result.articles_sent = 2

=============================================================================
